---- MODULE Spec2Model ----
(***************************************************************************)
(* A model of the core of odoo-cli: the JSON-RPC client (login handshake,  *)
(* read-only gate, retry on network errors) of odoo_cli/client.py, the      *)
(* profile store (ProfileManager) of odoo_cli/models/profile.py, the       *)
(* configuration resolver of odoo_cli/config.py and the response cache of  *)
(* odoo_cli/cache.py.                                                      *)
(***************************************************************************)
EXTENDS Integers, Sequences, FiniteSets, TLC

VARIABLES
    readonly,      \* OdooClient.readonly
    force_write,   \* OdooClient._force_write (absent until set: FALSE)
    uid,           \* OdooClient.uid, 0 for None
    rpc,           \* what the last client operation did and how it ended
    ctx,           \* the contexts of the last verb and the one it sent
    profiles,      \* ProfileManager.profiles, in dict (insertion) order
    file,          \* the profiles mapping of the YAML store file
    pres,          \* what the last ProfileManager operation returned
    mgr,           \* two ProfileManager instances on the same store file
    cin,           \* what load_config / get_profile is called with and on
    cfg,           \* what load_config and validate_config returned
    found,         \* what get_profile returned
    cache,         \* the entry files of the cache directory, by cache key
    now,           \* time.time()
    cres,          \* what the last cache operation did and returned
    gm             \* the clients of get_models, where they are, their last calls

clientVars == <<readonly, force_write, uid, rpc, ctx>>
storeVars == <<profiles, file, pres, mgr>>
configVars == <<cin, cfg, found>>
cacheVars == <<cache, now, cres, gm>>
vars == <<readonly, force_write, uid, rpc, ctx, profiles, file, pres, mgr,
          cin, cfg, found, cache, now, cres, gm>>

(***************************************************************************)
(* Bounds of the model.                                                    *)
(***************************************************************************)
MaxUid == 2        \* user ids the server may answer a login with: 1..MaxUid
MaxProfiles == 2   \* profiles in a store
MaxTime == 3       \* the clock runs from 1 to MaxTime; get_models sees MaxTime days
MaxCalls == 2      \* calls of get_models a client makes

(***************************************************************************)
(* The RPC client, odoo_cli/client.py.                                     *)
(***************************************************************************)

\* What the server or the transport answers to one session.post:
\*   "result"  a JSON envelope with a truthy result
\*   "empty"   a JSON envelope whose result is null/false
\*   "error"   a JSON envelope with an "error" member
\*   "refused" requests.exceptions.ConnectionError
\*   "timeout" requests.exceptions.Timeout
Responses == {"result", "empty", "error", "refused", "timeout"}

WRITE_METHODS == {"create", "write", "unlink", "copy"}

Methods == WRITE_METHODS \cup {"read"}

max_retries == 3

\* The answers to the posts of one _execute, in order: one per attempt of the
\* call, after the answer to the login handshake when the client has no uid.
Scripts(u) == [1..(IF u = 0 THEN max_retries + 1 ELSE max_retries) -> Responses]

\* The user ids a login of this call may return (none is asked with a uid).
ServerUids(u) == IF u = 0 THEN 1..MaxUid ELSE {u}

\* An exception object: its type and the post (1-based, within the operation)
\* whose failure created it; at = 0 for an exception no post created.
Exc(type, at) == [type |-> type, at |-> at]

NoExc == Exc("none", 0)

\* except (requests.exceptions.ConnectionError, requests.exceptions.Timeout)
IsRetryableAny(resp) == resp \in {"refused", "timeout", "error"}

IsRetryable(resp) == resp \in {"refused", "timeout"}

\* if attempt < max_retries - 1: time.sleep(delay)
ShouldSleepAlways(attempt) == TRUE

ShouldSleep(attempt) == attempt < max_retries - 1

\* The exception one attempt of _jsonrpc_call raises on response resp to post
\* number at, NoExc when it returns data.get("result").
AttemptExc(resp, at) ==
    CASE resp = "refused" -> Exc("requests.ConnectionError", at)
      [] resp = "timeout" -> Exc("requests.Timeout", at)
      [] resp = "error" -> Exc("ValueError", at)
      [] OTHER -> NoExc

\* The wrapper of retry_on_network_error around _jsonrpc_call: the loop
\* "for attempt in range(max_retries)" from attempt on, the posts of this call
\* answered by script[base + 1], script[base + 2], ...
RECURSIVE RetryLoop(_, _, _, _, _)
RetryLoop(script, base, attempt, delays, last_exception) ==
    IF attempt >= max_retries
    THEN [outcome |-> IF last_exception # NoExc THEN "raise" ELSE "ok",
          exc |-> last_exception, attempts |-> attempt, delays |-> delays]
    ELSE LET at == base + attempt + 1
             e == AttemptExc(script[at], at)
         IN IF e = NoExc
            THEN [outcome |-> "ok", exc |-> NoExc,
                  attempts |-> attempt + 1, delays |-> delays]
            ELSE IF IsRetryable(script[at])
            THEN RetryLoop(script, base, attempt + 1,
                           IF ShouldSleep(attempt) THEN delays + 1 ELSE delays, e)
            ELSE [outcome |-> "raise", exc |-> e,
                  attempts |-> attempt + 1, delays |-> delays]

jsonrpc_call(script, base) == RetryLoop(script, base, 0, 0, NoExc)

\* OdooClient.connect: one login post, answered by resp; su is the user id a
\* successful login returns. The result is the new uid and how connect ended.
connect(u, resp, su, at) ==
    CASE resp \in {"refused", "timeout"} ->
            [uid |-> u, outcome |-> "raise", exc |-> Exc("ConnectionError", at), posts |-> 1]
      [] resp = "error" ->
            [uid |-> u, outcome |-> "raise", exc |-> Exc("ValueError", at), posts |-> 1]
      [] resp = "empty" ->
            [uid |-> 0, outcome |-> "raise", exc |-> Exc("ValueError", at), posts |-> 1]
      [] OTHER ->
            [uid |-> su, outcome |-> "ok", exc |-> NoExc, posts |-> 1]

\* if self.readonly and method in self.WRITE_METHODS: raise PermissionError
\* (the test does not read _force_write, fw here).
Blocked(ro, fw, method) == ro /\ method \in WRITE_METHODS

LoginReq == [service |-> "common", method |-> "login", uid |-> 0]

CallReqAnonymous(method, u) == [service |-> "object", method |-> method, uid |-> 0]

CallReq(method, u) == [service |-> "object", method |-> method, uid |-> u]

Repeat(x, n) == [i \in 1..n |-> x]

\* OdooClient._execute(model, method, ...) on a client with the given flags
\* and uid: _ensure_connected, the read-only gate, then the payload handed to
\* _jsonrpc_call. The posts are answered by script[1], script[2], ...
execute(ro, fw, u, method, script, su) ==
    LET c == IF u = 0 THEN connect(u, script[1], su, 1)
             ELSE [uid |-> u, outcome |-> "ok", exc |-> NoExc, posts |-> 0]
        logins == c.posts
        sentLogin == Repeat(LoginReq, logins)
    IN IF c.outcome = "raise"
       THEN [uid |-> c.uid, op |-> "execute", method |-> method, outcome |-> "raise",
             exc |-> c.exc, logins |-> logins, attempts |-> 0, delays |-> 0,
             sent |-> sentLogin]
       ELSE IF Blocked(ro, fw, method)
       THEN [uid |-> c.uid, op |-> "execute", method |-> method, outcome |-> "raise",
             exc |-> Exc("PermissionError", 0), logins |-> logins, attempts |-> 0,
             delays |-> 0, sent |-> sentLogin]
       ELSE LET r == jsonrpc_call(script, logins)
            IN [uid |-> c.uid, op |-> "execute", method |-> method,
                outcome |-> r.outcome, exc |-> r.exc, logins |-> logins,
                attempts |-> r.attempts, delays |-> r.delays,
                sent |-> sentLogin \o Repeat(CallReq(method, c.uid), r.attempts)]

NoRpc ==
    [op |-> "none", method |-> "none", outcome |-> "ok", exc |-> NoExc, logins |-> 0,
     attempts |-> 0, delays |-> 0, sent |-> <<>>, answers |-> <<>>,
     force |-> FALSE]

\* OdooClient(..., readonly=...): no uid, no _force_write attribute yet.
ClientInit ==
    /\ readonly \in BOOLEAN
    /\ force_write = FALSE
    /\ uid = 0
    /\ rpc = NoRpc
    /\ ctx = <<>>

\* client.connect() called by the owner of the client (get_odoo_client does
\* so right after construction).
Connect(resp, su) ==
    LET c == connect(uid, resp, su, 1)
    IN /\ uid' = c.uid
       /\ rpc' = [op |-> "connect", method |-> "login", outcome |-> c.outcome,
                  exc |-> c.exc, logins |-> c.posts, attempts |-> 0, delays |-> 0,
                  sent |-> Repeat(LoginReq, c.posts), answers |-> <<resp>>,
                  force |-> force_write]
       /\ UNCHANGED <<readonly, force_write, ctx>>
       /\ UNCHANGED <<storeVars, configVars, cacheVars>>

\* client._force_write = True (CliContext.client under force_mode,
\* create-bulk --force).
SetForceWrite ==
    /\ force_write' = TRUE
    /\ UNCHANGED <<readonly, uid, rpc, ctx>>
    /\ UNCHANGED <<storeVars, configVars, cacheVars>>

\* client.execute(model, method, ...) and every typed verb: _execute.
Execute(method, script, su) ==
    LET r == execute(readonly, force_write, uid, method, script, su)
    IN /\ uid' = r.uid
       /\ rpc' = [op |-> r.op, method |-> r.method, outcome |-> r.outcome,
                  exc |-> r.exc, logins |-> r.logins, attempts |-> r.attempts,
                  delays |-> r.delays, sent |-> r.sent,
                  answers |-> SubSeq(script, 1, Len(r.sent)),
                  force |-> force_write]
       /\ UNCHANGED <<readonly, force_write, ctx>>
       /\ UNCHANGED <<storeVars, configVars, cacheVars>>

ClientNext ==
    \/ \E resp \in Responses, su \in 1..MaxUid : Connect(resp, su)
    \/ SetForceWrite
    \/ \E m \in Methods, s \in Scripts(uid), su \in ServerUids(uid) : Execute(m, s, su)

NoResult ==
    [op |-> "none", name |-> "", arg |-> {}, success |-> TRUE, error |-> "none",
     requires_confirmation |-> FALSE, warning |-> FALSE, saved |-> FALSE]

StoreIdle == profiles = <<>> /\ file = <<>> /\ pres = NoResult /\ mgr = <<>>

\* No configuration is being resolved, no cache is in use.
ConfigIdle == cin = <<>> /\ cfg = <<>> /\ found = <<>>

CacheIdle == cache = <<>> /\ now = 0 /\ cres = <<>> /\ gm = <<>>

\* A client alone, no profile store in play.
InitClient == ClientInit /\ StoreIdle /\ ConfigIdle /\ CacheIdle

SpecClient == InitClient /\ [][ClientNext]_vars

(***************************************************************************)
(* The profile store, odoo_cli/models/profile.py.                          *)
(***************************************************************************)

Names == {"prod", "staging", "dev"}

\* Optional[...] values: None is the empty set, a value v is {v}.
None == {}

Some(v) == {v}

\* Python truthiness of an optional string: neither None nor "".
Truthy(x) == x # None /\ x # Some("")

Val(x) == CHOOSE v \in x : TRUE

\* A mapping without keys: an empty dict, an environment with nothing set.
Empty == [k \in {} |-> ""]

\* The dataclass Profile.
Profile(name, url, db, username, password, timeout, verify_ssl, default, ro, protected, context) ==
    [name |-> name, url |-> url, db |-> db, username |-> username,
     password |-> password, timeout |-> timeout, verify_ssl |-> verify_ssl,
     default |-> default, readonly |-> ro, protected |-> protected,
     context |-> context]

RequiredKeys == {"url", "db", "username", "password", "timeout", "verify_ssl"}

\* The mapping _save_profiles writes for one profile: the six connection keys
\* always, default/readonly/protected/context only when truthy.
SaveEntry(p) ==
    LET keys == RequiredKeys
                \cup (IF p.default THEN {"default"} ELSE {})
                \cup (IF p.readonly THEN {"readonly"} ELSE {})
                \cup (IF p.protected THEN {"protected"} ELSE {})
                \cup (IF p.context # None /\ Val(p.context) # Empty
                      THEN {"context"} ELSE {})
    IN [name |-> p.name,
        data |-> [k \in keys |->
                    CASE k = "url" -> p.url
                      [] k = "db" -> p.db
                      [] k = "username" -> p.username
                      [] k = "password" -> p.password
                      [] k = "timeout" -> p.timeout
                      [] k = "verify_ssl" -> p.verify_ssl
                      [] k = "context" -> p.context
                      [] OTHER -> TRUE]]

\* _save_profiles: the whole store, in dict order.
SaveProfiles(ps) == [i \in 1..Len(ps) |-> SaveEntry(ps[i])]

\* profile_data.get(key, dflt)
Get(data, key, dflt) == IF key \in DOMAIN data THEN data[key] ELSE dflt

\* _load_profiles, for one entry of the profiles mapping.
LoadEntry(e) ==
    Profile(e.name, Get(e.data, "url", ""), Get(e.data, "db", ""),
            Get(e.data, "username", ""), Get(e.data, "password", ""),
            Get(e.data, "timeout", 30), Get(e.data, "verify_ssl", TRUE),
            Get(e.data, "default", FALSE), Get(e.data, "readonly", FALSE),
            Get(e.data, "protected", FALSE), Get(e.data, "context", None))

LoadProfiles(f) == [i \in 1..Len(f) |-> LoadEntry(f[i])]

\* name in self.profiles
Has(ps, name) == \E i \in 1..Len(ps) : ps[i].name = name

\* self.profiles[name]
Lookup(ps, name) == ps[CHOOSE i \in 1..Len(ps) : ps[i].name = name]

\* for profile in self.profiles.values(): profile.default = False
ClearDefaults(ps) == [i \in 1..Len(ps) |-> [ps[i] EXCEPT !.default = FALSE]]

\* Result dictionaries of the mutation API.
Ok(ps) == [profiles |-> ps, success |-> TRUE, error |-> "none",
           requires_confirmation |-> FALSE, warning |-> FALSE, saved |-> TRUE]

Fail(ps, error) == [profiles |-> ps, success |-> FALSE, error |-> error,
                    requires_confirmation |-> FALSE, warning |-> FALSE,
                    saved |-> FALSE]

NeedsConfirmation(ps) ==
    [profiles |-> ps, success |-> FALSE, error |-> "removing_readonly",
     requires_confirmation |-> TRUE, warning |-> TRUE, saved |-> FALSE]

\* ProfileManager.add_profile
add_profile_keep_defaults(ps, name, url, db, username, password, timeout, verify_ssl, default, ro) ==
    IF Has(ps, name) THEN Fail(ps, "already_exists")
    ELSE Ok(Append(ps, Profile(name, url, db, username, password, timeout,
                               verify_ssl, default, ro, FALSE, None)))

add_profile_clear_first(ps, name, url, db, username, password, timeout, verify_ssl, default, ro) ==
    IF Has(ps, name)
    THEN Fail(IF default THEN ClearDefaults(ps) ELSE ps, "already_exists")
    ELSE Ok(Append(IF default THEN ClearDefaults(ps) ELSE ps,
                   Profile(name, url, db, username, password, timeout,
                           verify_ssl, default, ro, FALSE, None)))

add_profile(ps, name, url, db, username, password, timeout, verify_ssl, default, ro) ==
    IF Has(ps, name) THEN Fail(ps, "already_exists")
    ELSE Ok(Append(IF default THEN ClearDefaults(ps) ELSE ps,
                   Profile(name, url, db, username, password, timeout,
                           verify_ssl, default, ro, FALSE, None)))

\* The "Update fields" block of update_profile, kw the keyword arguments.
UpdateFieldsUnguarded(p, kw) ==
    [p EXCEPT
       !.url = IF kw.url # None THEN Val(kw.url) ELSE "",
       !.db = IF kw.db # None THEN Val(kw.db) ELSE "",
       !.username = IF kw.username # None THEN Val(kw.username) ELSE "",
       !.password = IF kw.password # None THEN Val(kw.password) ELSE "",
       !.timeout = IF kw.timeout # None THEN Val(kw.timeout) ELSE @,
       !.verify_ssl = IF kw.verify_ssl # None THEN Val(kw.verify_ssl) ELSE @,
       !.readonly = IF kw.readonly # None THEN Val(kw.readonly) ELSE @]

UpdateFields(p, kw) ==
    [p EXCEPT
       !.url = IF Truthy(kw.url) THEN Val(kw.url) ELSE @,
       !.db = IF Truthy(kw.db) THEN Val(kw.db) ELSE @,
       !.username = IF Truthy(kw.username) THEN Val(kw.username) ELSE @,
       !.password = IF Truthy(kw.password) THEN Val(kw.password) ELSE @,
       !.timeout = IF kw.timeout # None THEN Val(kw.timeout) ELSE @,
       !.verify_ssl = IF kw.verify_ssl # None THEN Val(kw.verify_ssl) ELSE @,
       !.readonly = IF kw.readonly # None THEN Val(kw.readonly) ELSE @]

\* if "readonly" in kwargs and kwargs["readonly"] is False and profile.readonly:
\*     if not confirmed: ...
ConfirmationMissingNever(p, kw, confirmed) == FALSE

ConfirmationMissing(p, kw, confirmed) ==
    kw.readonly = Some(FALSE) /\ p.readonly /\ ~confirmed

\* if profile.protected: return {"success": False, ...}
IsProtectedNever(p) == FALSE

IsProtected(p) == p.protected

\* ProfileManager.update_profile
update_profile(ps, name, confirmed, kw) ==
    IF ~Has(ps, name) THEN Fail(ps, "not_found")
    ELSE LET p == Lookup(ps, name)
         IN IF IsProtected(p) THEN Fail(ps, "protected")
            ELSE IF ConfirmationMissing(p, kw, confirmed) THEN NeedsConfirmation(ps)
            ELSE Ok([i \in 1..Len(ps) |->
                       IF ps[i].name = name THEN UpdateFields(ps[i], kw) ELSE ps[i]])

\* del self.profiles[name]
Remove(ps, name) == SelectSeq(ps, LAMBDA q : q.name # name)

\* ProfileManager.delete_profile
delete_profile(ps, name) ==
    IF ~Has(ps, name) THEN Fail(ps, "not_found")
    ELSE IF IsProtected(Lookup(ps, name)) THEN Fail(ps, "protected")
    ELSE Ok(Remove(ps, name))

\* ProfileManager.rename_profile: the renamed profile is stored under the new
\* key, which puts it last in dict order, and the old key is deleted.
rename_profile(ps, old_name, new_name) ==
    IF ~Has(ps, old_name) THEN Fail(ps, "not_found")
    ELSE IF Has(ps, new_name) THEN Fail(ps, "already_exists")
    ELSE LET p == Lookup(ps, old_name)
         IN IF IsProtected(p) THEN Fail(ps, "protected")
            ELSE Ok(Append(Remove(ps, old_name), [p EXCEPT !.name = new_name]))

\* ProfileManager.set_default
set_default(ps, name) ==
    IF ~Has(ps, name) THEN Fail(ps, "not_found")
    ELSE Ok([i \in 1..Len(ps) |-> [ps[i] EXCEPT !.default = (ps[i].name = name)]])

\* The values the model draws the arguments of add and update from.
UpdateArgs ==
    [url : {None, Some("https://b")},
     db : {None}, username : {None}, password : {None},
     timeout : {None},
     verify_ssl : {None},
     readonly : {None, Some(TRUE), Some(FALSE)}]

\* The stores a ProfileManager may be constructed on: up to MaxProfiles
\* profiles with distinct names, at most one of them flagged default.
InitialProfile(name, flags) ==
    Profile(name, "https://a", "db", "admin", "secret", 30, TRUE,
            flags.default, flags.readonly, flags.protected, None)

Flags ==
    {f \in [default : BOOLEAN, readonly : BOOLEAN, protected : BOOLEAN] :
       f.protected => ~f.readonly}

Distinct(ns) == \A i, j \in 1..Len(ns) : i # j => ns[i] # ns[j]

DefaultCount(ps) == Cardinality({i \in 1..Len(ps) : ps[i].default})

InitialStores ==
    UNION {{[i \in 1..n |-> InitialProfile(ns[i], fs[i])] :
              ns \in {x \in [1..n -> Names] : Distinct(x)},
              fs \in {y \in [1..n -> Flags] :
                        Cardinality({i \in 1..n : y[i].default}) <= 1}} :
           n \in 0..MaxProfiles}

\* ProfileManager(config_path): the store file is read into memory.
StoreInit ==
    /\ file \in {SaveProfiles(ps) : ps \in InitialStores}
    /\ profiles = LoadProfiles(file)
    /\ pres = NoResult
    /\ mgr = <<>>

\* One call of the mutation API: the in-memory store it leaves, the file
\* rewritten by _save_profiles when it succeeded, and the result it returned.
Apply(op, name, arg, r) ==
    /\ profiles' = r.profiles
    /\ file' = IF r.saved THEN SaveProfiles(r.profiles) ELSE file
    /\ pres' = [op |-> op, name |-> name, arg |-> arg, success |-> r.success,
                error |-> r.error,
                requires_confirmation |-> r.requires_confirmation,
                warning |-> r.warning, saved |-> r.saved]
    /\ UNCHANGED <<mgr, clientVars, configVars, cacheVars>>

AddProfile(name, default, ro) ==
    /\ Len(profiles) < MaxProfiles \/ Has(profiles, name)
    /\ Apply("add", name, [default |-> default],
             add_profile(profiles, name, "https://a", "db", "admin", "secret",
                         30, TRUE, default, ro))

UpdateProfile(name, confirmed, kw) ==
    Apply("update", name,
          [confirmed |-> confirmed, readonly |-> kw.readonly, url |-> kw.url # None],
          update_profile(profiles, name, confirmed, kw))

DeleteProfile(name) ==
    Apply("delete", name, None, delete_profile(profiles, name))

RenameProfile(old_name, new_name) ==
    Apply("rename", old_name, new_name, rename_profile(profiles, old_name, new_name))

SetDefault(name) ==
    Apply("set_default", name, None, set_default(profiles, name))

StoreNext ==
    \/ \E n \in Names, d \in BOOLEAN, ro \in BOOLEAN : AddProfile(n, d, ro)
    \/ \E n \in Names, c \in BOOLEAN, kw \in UpdateArgs : UpdateProfile(n, c, kw)
    \/ \E n \in Names : DeleteProfile(n)
    \/ \E n \in Names, m \in Names : RenameProfile(n, m)
    \/ \E n \in Names : SetDefault(n)

ClientIdle ==
    readonly = FALSE /\ force_write = FALSE /\ uid = 0 /\ rpc = NoRpc /\ ctx = <<>>

\* A profile store alone, the client not in use.
InitStore == StoreInit /\ ClientIdle /\ ConfigIdle /\ CacheIdle

SpecStore == InitStore /\ [][StoreNext]_vars

(***************************************************************************)
(* The configuration resolver, odoo_cli/config.py, and the profile lookup  *)
(* it uses, ProfileManager.get_profile / get_config.                       *)
(***************************************************************************)

\* os.getenv(key): None when the variable is not set.
getenv(environ, key) == IF key \in DOMAIN environ THEN Some(environ[key]) ELSE None

\* a or b, on optional strings
Or(a, b) == IF Truthy(a) THEN a ELSE b

\* str.lower(), on the spellings the model sets variables to
Lower(s) ==
    CASE s = "False" -> "false"
      [] s = "No" -> "no"
      [] s = "True" -> "true"
      [] s = "YES" -> "yes"
      [] OTHER -> s

\* int(value): None for a ValueError
ParseInt(s) ==
    CASE s = "60" -> Some(60)
      [] s = "5" -> Some(5)
      [] OTHER -> None

\* load_dotenv(env_path, override=False): the variables of the file are set
\* in os.environ unless they are set already.
load_dotenv(environ, envfile) == environ @@ envfile.vars

\* for env_path in get_config_search_paths(): if env_path.exists(): ...
\* envfiles are the existing files, in search order.
RECURSIVE LoadEnvFiles(_, _)
LoadEnvFiles(environ, envfiles) ==
    IF envfiles = <<>> THEN environ
    ELSE LoadEnvFiles(load_dotenv(environ, Head(envfiles)), Tail(envfiles))

\* dict.update(d) as the code has it, and the other way round.
UpdateKeepingOld(config, d) == config @@ d

Update(config, d) == d @@ config

\* config[key] = value
SetItem(config, key, value) == (key :> value) @@ config

\* config.setdefault(key, value)
setdefault(config, key, value) == config @@ (key :> value)


\* if value is not None: config[key] = value
SetIfNotNone(config, key, value) ==
    IF value # None THEN SetItem(config, key, Val(value)) ELSE config

\* self.profiles.get(name)
ProfilesGet(ps, name) == IF Has(ps, name) THEN Some(Lookup(ps, name)) ELSE None

\* for profile in self.profiles.values(): if profile.default: return profile
FirstDefaultNever(ps) == None

FirstDefault(ps) ==
    LET ds == SelectSeq(ps, LAMBDA q : q.default)
    IN IF ds = <<>> THEN None ELSE Some(Head(ds))

\* ProfileManager.get_profile(name), os.environ being environ: the named
\* profile when a name is given, else the one ODOO_PROFILE names if stored,
\* else the first flagged default, else the first of the store.
get_profile(ps, name, environ) ==
    LET env_profile == getenv(environ, "ODOO_PROFILE")
    IN IF Truthy(name) THEN ProfilesGet(ps, Val(name))
       ELSE IF Truthy(env_profile) /\ Has(ps, Val(env_profile))
       THEN Some(Lookup(ps, Val(env_profile)))
       ELSE IF FirstDefault(ps) # None THEN FirstDefault(ps)
       ELSE IF ps # <<>> THEN Some(Head(ps))
       ELSE None

\* Profile.to_config
to_config(p) ==
    [url |-> p.url, db |-> p.db, username |-> p.username, password |-> p.password,
     timeout |-> p.timeout, verify_ssl |-> p.verify_ssl, readonly |-> p.readonly,
     _profile |-> Some(p.name)]

\* ProfileManager.get_config(profile_name): the profile's config, else the
\* legacy top-level config of the store file, else None.
get_config(ps, legacy, profile_name, environ) ==
    LET profile == get_profile(ps, profile_name, environ)
    IN IF profile # None THEN Some(to_config(Val(profile)))
       ELSE IF legacy # None THEN legacy
       ELSE None

\* The env_config block of load_config and the loop that copies its non-None
\* values into config.
FromEnvironment(config, environ) ==
    LET timeout == getenv(environ, "ODOO_TIMEOUT")
        verify == getenv(environ, "ODOO_VERIFY_SSL")
        c1 == SetIfNotNone(config, "url", getenv(environ, "ODOO_URL"))
        c2 == SetIfNotNone(c1, "db", Or(getenv(environ, "ODOO_DB"),
                                         getenv(environ, "ODOO_DATABASE")))
        c3 == SetIfNotNone(c2, "username", getenv(environ, "ODOO_USERNAME"))
        c4 == SetIfNotNone(c3, "password", getenv(environ, "ODOO_PASSWORD"))
        c5 == IF timeout = None THEN c4
              ELSE SetItem(c4, "timeout",
                           IF ParseInt(Val(timeout)) # None
                           THEN Val(ParseInt(Val(timeout))) ELSE 30)
    IN SetItem(c5, "verify_ssl",
               Lower(IF verify = None THEN "" ELSE Val(verify))
                   \notin {"false", "0", "no"})

\* The files a --config path may name: a JSON object, or text that is not
\* JSON. A path outside the domain does not exist.
ConfigFiles ==
    ("url.json" :> [valid |-> TRUE, object |-> ("url" :> "https://file")])
    @@ ("db.json" :> [valid |-> TRUE, object |-> ("db" :> "filedb")])
    @@ ("user.json" :> [valid |-> TRUE, object |-> ("username" :> "fileuser")])
    @@ ("password.json" :> [valid |-> TRUE, object |-> ("password" :> "filepw")])
    @@ ("timeout.json" :> [valid |-> TRUE, object |-> ("timeout" :> 45)])
    @@ ("verify.json" :> [valid |-> TRUE, object |-> ("verify_ssl" :> FALSE)])
    @@ ("broken.json" :> [valid |-> FALSE, object |-> Empty])

\* The "if config_file:" block: the exception it raises, "none" if none, and
\* the config it leaves.
FromConfigFile(config, config_file) ==
    IF ~Truthy(config_file) \/ Val(config_file) \notin DOMAIN ConfigFiles
    THEN [exc |-> "none", config |-> config]
    ELSE LET f == ConfigFiles[Val(config_file)]
         IN IF f.valid THEN [exc |-> "none", config |-> Update(config, f.object)]
            ELSE [exc |-> "json.JSONDecodeError", config |-> config]

\* The profile block of load_config (in a try/except that swallows all).
FromProfile(config, ps, legacy, profile, environ) ==
    LET profile_name == Or(profile, getenv(environ, "ODOO_PROFILE"))
        profile_config == get_config(ps, legacy, profile_name, environ)
        loaded_profile == get_profile(ps, profile_name, environ)
    IN IF profile_config = None THEN config
       ELSE LET c == Update(config, Val(profile_config))
            IN IF loaded_profile = None THEN c
               ELSE SetItem(SetItem(c, "_config_source",
                                    Some("profile:" \o Val(loaded_profile).name)),
                            "_profile", Some(Val(loaded_profile).name))

\* The "Override with command-line arguments" block.
FromArguments(config, a) ==
    LET c1 == SetIfNotNone(config, "url", a.url)
        c2 == SetIfNotNone(c1, "db", a.db)
        c3 == SetIfNotNone(c2, "username", a.username)
        c4 == SetIfNotNone(c3, "password", a.password)
        c5 == SetIfNotNone(c4, "timeout", a.timeout)
    IN SetIfNotNone(c5, "verify_ssl", a.verify_ssl)

\* The defaults and the ODOO_NO_VERIFY_SSL flag, the last two blocks.
Finish(config, environ) ==
    LET no_verify == getenv(environ, "ODOO_NO_VERIFY_SSL")
        c == setdefault(setdefault(config, "timeout", 30), "verify_ssl", TRUE)
    IN IF Lower(IF no_verify = None THEN "" ELSE Val(no_verify))
            \in {"true", "1", "yes"}
       THEN SetItem(c, "verify_ssl", FALSE) ELSE c

\* load_config(config_file, profile, url, db, username, password, timeout,
\* verify_ssl), a the arguments, on a process whose environment is
\* a.environ, which finds the env files a.envfiles and whose ProfileManager
\* holds ps and the legacy config a.legacy.
load_config(ps, a) ==
    LET environ == LoadEnvFiles(a.environ, a.envfiles)
        c0 == [_config_source |-> IF a.envfiles = <<>> THEN None
                                  ELSE Some(Head(a.envfiles).path),
               _profile |-> None]
        c1 == FromEnvironment(c0, environ)
        f == FromConfigFile(c1, a.config_file)
    IN IF f.exc # "none"
       THEN [outcome |-> "raise", exc |-> f.exc, config |-> Empty]
       ELSE [outcome |-> "ok", exc |-> "none",
             config |-> Finish(FromArguments(
                            FromProfile(f.config, ps, a.legacy, a.profile, environ),
                            a), environ)]

\* config.get(key), falsy
Missing(config, key) == key \notin DOMAIN config \/ config[key] = ""

\* validate_config: the required keys that are missing, in order; it raises
\* ValueError when there is one.
validate_config(config) ==
    SelectSeq(<<"url", "db", "username", "password">>,
              LAMBDA key : Missing(config, key))


\* The stores load_config and get_profile are run on: up to MaxProfiles
\* profiles with distinct names, at most one flagged default, each with
\* connection values of its own.
ConfigProfile(name, default) ==
    Profile(name, "https://" \o name, name \o "_db", name \o "_user",
            name \o "_pw", 30, TRUE, default, FALSE, FALSE, None)

ConfigStores ==
    UNION {{[i \in 1..n |-> ConfigProfile(ns[i], ds[i])] :
              ns \in {x \in [1..n -> Names] : Distinct(x)},
              ds \in {y \in [1..n -> BOOLEAN] :
                        Cardinality({i \in 1..n : y[i]}) <= 1}} :
           n \in 0..MaxProfiles}

\* The legacy top-level config of a store file (_load_profiles).
LegacyConfig ==
    [url |-> "https://legacy", db |-> "legacydb", username |-> "legacyuser",
     password |-> "legacypw", timeout |-> 30, verify_ssl |-> TRUE]

\* An .env file in the current directory that sets ODOO_URL.
DotEnv == [path |-> ".env", vars |-> ("ODOO_URL" :> "https://dotenv")]

\* A call with nothing set, nothing found and nothing passed.
BaseInput ==
    [environ |-> Empty, envfiles |-> <<>>, legacy |-> None, readable |-> TRUE,
     config_file |-> None, profile |-> None, url |-> None, db |-> None,
     username |-> None, password |-> None, timeout |-> None,
     verify_ssl |-> None]

Var(key, values) == {Empty} \cup {key :> v : v \in values}

\* The sources of the url, all combinations.
UrlInputs ==
    {[BaseInput EXCEPT !.environ = e, !.envfiles = d, !.config_file = f,
                       !.profile = p, !.url = u] :
       e \in Var("ODOO_URL", {"https://env"}), d \in {<<>>, <<DotEnv>>},
       f \in {None, Some("absent.json"), Some("url.json"), Some("broken.json")},
       p \in {None, Some("prod")}, u \in {None, Some("https://cli"), Some("")}}

\* The ways of selecting a profile, all combinations.
SelectionInputs ==
    {[BaseInput EXCEPT !.environ = e @@ n, !.legacy = l, !.readable = r,
                       !.profile = p] :
       e \in Var("ODOO_URL", {"https://env"}),
       n \in Var("ODOO_PROFILE", {"dev", "ghost"}),
       l \in {None, Some(LegacyConfig)}, r \in BOOLEAN,
       p \in {None, Some("prod"), Some("ghost"), Some("")}}

DbInputs ==
    {[BaseInput EXCEPT !.environ = e @@ n, !.config_file = f, !.profile = p,
                       !.db = v] :
       e \in Var("ODOO_DB", {"envdb", ""}),
       n \in Var("ODOO_DATABASE", {"envdatabase"}),
       f \in {None, Some("db.json")}, p \in {None, Some("prod")},
       v \in {None, Some("clidb")}}

UsernameInputs ==
    {[BaseInput EXCEPT !.environ = e, !.config_file = f, !.profile = p,
                       !.username = v] :
       e \in Var("ODOO_USERNAME", {"envuser"}),
       f \in {None, Some("user.json")}, p \in {None, Some("prod")},
       v \in {None, Some("cliuser")}}

PasswordInputs ==
    {[BaseInput EXCEPT !.environ = e, !.config_file = f, !.profile = p,
                       !.password = v] :
       e \in Var("ODOO_PASSWORD", {"envpw"}),
       f \in {None, Some("password.json")}, p \in {None, Some("prod")},
       v \in {None, Some("clipw")}}

TimeoutInputs ==
    {[BaseInput EXCEPT !.environ = e, !.config_file = f, !.profile = p,
                       !.timeout = v] :
       e \in Var("ODOO_TIMEOUT", {"60", "abc"}),
       f \in {None, Some("timeout.json")}, p \in {None, Some("prod")},
       v \in {None, Some(5)}}

VerifyInputs ==
    {[BaseInput EXCEPT !.environ = e @@ n, !.config_file = f, !.profile = p,
                       !.verify_ssl = v] :
       e \in Var("ODOO_VERIFY_SSL", {"False", "true"}),
       n \in Var("ODOO_NO_VERIFY_SSL", {"1", "no"}),
       f \in {None, Some("verify.json")}, p \in {None, Some("prod")},
       v \in {None, Some(TRUE), Some(FALSE)}}

\* What load_config is called with: every combination of the sources of one
\* field, the other fields left unset.
ConfigInputs ==
    UrlInputs \cup SelectionInputs \cup DbInputs \cup UsernameInputs
    \cup PasswordInputs \cup TimeoutInputs \cup VerifyInputs

NoConfig ==
    [phase |-> "input", outcome |-> "none", exc |-> "none", config |-> Empty,
     missing |-> <<>>]

NoFound == [done |-> FALSE, profile |-> None]

\* ProfileManager(): _load_profiles reads the store file, and leaves the
\* store empty and without legacy config when the file cannot be read or
\* parsed.
ConfigInit ==
    /\ cin \in {i \in ConfigInputs : ~i.readable => i.legacy = None}
    /\ file \in {SaveProfiles(ps) : ps \in ConfigStores}
    /\ profiles = IF cin.readable THEN LoadProfiles(file) ELSE <<>>
    /\ pres = NoResult
    /\ mgr = <<>>
    /\ cfg = NoConfig
    /\ found = NoFound

\* config = load_config(...)
LoadConfig ==
    /\ cfg.phase = "input"
    /\ LET r == load_config(profiles, cin)
       IN cfg' = [phase |-> "resolved", outcome |-> r.outcome, exc |-> r.exc,
                  config |-> r.config, missing |-> <<>>]
    /\ cin' = [cin EXCEPT !.environ = LoadEnvFiles(cin.environ, cin.envfiles)]
    /\ UNCHANGED <<found, clientVars, storeVars, cacheVars>>

\* validate_config(config), on the config load_config returned
ValidateConfig ==
    /\ cfg.phase = "resolved"
    /\ cfg.outcome = "ok"
    /\ cfg' = [cfg EXCEPT !.phase = "validated",
                          !.missing = validate_config(cfg.config)]
    /\ UNCHANGED <<cin, found, clientVars, storeVars, cacheVars>>

\* pm.get_profile(name), in the environment of the process
GetProfile ==
    /\ ~found.done
    /\ found' = [done |-> TRUE,
                 profile |-> get_profile(profiles, cin.profile, cin.environ)]
    /\ UNCHANGED <<cin, cfg, clientVars, storeVars, cacheVars>>

ConfigNext == LoadConfig \/ ValidateConfig \/ GetProfile

\* A configuration being resolved, no client and no cache in use.
InitConfig == ConfigInit /\ ClientIdle /\ CacheIdle

SpecConfig == InitConfig /\ [][ConfigNext]_vars

(***************************************************************************)
(* The response cache, odoo_cli/cache.py.                                  *)
(***************************************************************************)

CacheKeys == {"models_a", "models_b"}

\* What is cached: lists of model names.
Payloads == {<<"res.partner">>, <<"res.partner", "sale.order">>}

\* ttl_seconds of a call
TTLs == {0, 1}

\* _get_cache_key: the file name of a key (the md5 digest is taken to be
\* injective on the keys of the model).
FileName(key) == "cache_" \o key \o ".json"

\* The text of a file, as json.load sees it: kind "garbage" is not JSON,
\* "array" is JSON but no object; of an object, ts is its '_timestamp' member
\* and data its 'data' member (None when it has none or it is null).  A
\* timestamp is missing, null, a number (value) or a string (text).
Doc(kind, ts, data) == [kind |-> kind, ts |-> ts, data |-> data]

Timestamp(kind, value) == [kind |-> kind, value |-> value, text |-> ""]

StringTimestamp(text) == [kind |-> "string", value |-> 0, text |-> text]

Garbage == Doc("garbage", Timestamp("missing", 0), None)

\* json.dump / json.load of a payload: a list is written as a JSON array,
\* an array is read as a list.
ToJson(v) == [array |-> v]

FromJson(j) == j.array

\* json.dump({'_timestamp': time.time(), 'data': data}, f)
DumpEntry(t, data) == Doc("object", Timestamp("number", t), Some(ToJson(data)))

\* Files that set_cached cannot have written: no timestamp, a null, zero or
\* non-numeric timestamp, no object, no JSON.
ForeignDocs ==
    {Garbage, Doc("array", Timestamp("missing", 0), None)}
    \cup {Doc("object", ts, Some(ToJson(<<"res.partner">>))) :
            ts \in {Timestamp("missing", 0), Timestamp("null", 0),
                    Timestamp("number", 0), StringTimestamp(""),
                    StringTimestamp("abc")}}

\* The filesystem call that fails during one operation, if any: creating
\* the cache directory, opening the entry file, writing it out, deleting it.
Faults == {"none", "mkdir", "open", "dump", "unlink"}

\* How a cache function ends: with the files it leaves, the value it returns
\* and the exception its body raised, "none" if none.
Returned(files, value) == [files |-> files, value |-> value, exc |-> "none"]

Caught(files, exc) == [files |-> files, value |-> None, exc |-> exc]

\* cache_file.unlink()
Unlink(files, name) == [n \in DOMAIN files \ {name} |-> files[n]]

\* if not stored_time: None, the number 0 and the empty string are falsy
NoTimestamp(ts) ==
    \/ ts.kind \in {"missing", "null"}
    \/ ts.kind = "number" /\ ts.value = 0
    \/ ts.kind = "string" /\ ts.text = ""

\* if age > ttl_seconds
ExpiredAtTtl(age, ttl_seconds) == age >= ttl_seconds

ExpiredIgnoringTtl(age, ttl_seconds) == age > 1

Expired(age, ttl_seconds) == age > ttl_seconds

\* The two "cache_file.unlink(); return None" branches of get_cached.
Purge(files, name, fault) ==
    IF fault = "unlink" THEN Caught(files, "PermissionError")
    ELSE Returned(Unlink(files, name), None)

\* The body of get_cached at time t.
get_cached(files, cache_key, ttl_seconds, t, fault) ==
    LET name == FileName(cache_key)
    IN IF fault = "mkdir" THEN Caught(files, "OSError")
       ELSE IF name \notin DOMAIN files THEN Returned(files, None)
       ELSE IF fault = "open" THEN Caught(files, "PermissionError")
       ELSE LET cache_data == files[name]
            IN IF cache_data.kind = "garbage" THEN Caught(files, "json.JSONDecodeError")
               ELSE IF cache_data.kind # "object" THEN Caught(files, "AttributeError")
               ELSE IF NoTimestamp(cache_data.ts) THEN Purge(files, name, fault)
               ELSE IF cache_data.ts.kind # "number" THEN Caught(files, "TypeError")
               ELSE IF Expired(t - cache_data.ts.value, ttl_seconds)
               THEN Purge(files, name, fault)
               ELSE Returned(files, IF cache_data.data = None THEN None
                                    ELSE Some(FromJson(Val(cache_data.data))))

\* The body of set_cached at time t: ttl_seconds is only logged. A failure
\* while the entry is written out leaves a truncated file.
set_cached(files, cache_key, data, ttl_seconds, t, fault) ==
    LET name == FileName(cache_key)
    IN IF fault = "mkdir" THEN Caught(files, "OSError")
       ELSE IF fault = "open" THEN Caught(files, "PermissionError")
       ELSE IF fault = "dump" THEN Caught((name :> Garbage) @@ files, "OSError")
       ELSE Returned((name :> DumpEntry(t, data)) @@ files, None)

\* The files a clear_cache of every entry may have deleted when one of its
\* deletes fails: those the glob yielded before the file that is not deleted.
Deleted(files, cache_key, fault) ==
    IF fault = "unlink" /\ ~Truthy(cache_key)
    THEN {gone \in SUBSET DOMAIN files : gone # DOMAIN files}
    ELSE {{}}

\* The body of clear_cache: one entry when a key is given, else every entry
\* file, in the order of the glob; a delete that fails ends it, with the
\* files gone already deleted.
clear_cache(files, cache_key, fault, gone) ==
    IF fault = "mkdir" THEN Caught(files, "OSError")
    ELSE IF Truthy(cache_key)
    THEN IF FileName(Val(cache_key)) \notin DOMAIN files THEN Returned(files, None)
         ELSE IF fault = "unlink" THEN Caught(files, "PermissionError")
         ELSE Returned(Unlink(files, FileName(Val(cache_key))), None)
    ELSE IF DOMAIN files = {} THEN Returned(files, None)
    ELSE IF fault = "unlink"
    THEN Caught([n \in DOMAIN files \ gone |-> files[n]], "PermissionError")
    ELSE Returned(Empty, None)

\* "except Exception as e: logger.warning(...)": what of the exception of the
\* body reaches the caller.
PropagatedAll(exc) == exc

Propagated(exc) == "none"

NoCall ==
    [op |-> "none", key |-> None, ttl |-> 0, fault |-> "none", value |-> None,
     exc |-> "none", raised |-> "none"]

\* The cache directory as a process finds it: empty, or with one entry file
\* that something else wrote.
CacheInit ==
    /\ cache \in {Empty} \cup {FileName(k) :> d : k \in CacheKeys, d \in ForeignDocs}
    /\ now = 1
    /\ cres = NoCall
    /\ gm = <<>>

\* One call of a cache function: the files it leaves and what the caller
\* sees of it.
CacheCall(op, key, ttl, fault, r) ==
    /\ cache' = r.files
    /\ cres' = [op |-> op, key |-> key, ttl |-> ttl, fault |-> fault,
                value |-> r.value, exc |-> r.exc, raised |-> Propagated(r.exc)]
    /\ UNCHANGED <<now, gm, clientVars, storeVars, configVars>>

GetCached(key, ttl, fault) ==
    CacheCall("get", Some(key), ttl, fault, get_cached(cache, key, ttl, now, fault))

SetCached(key, data, ttl, fault) ==
    CacheCall("set", Some(key), ttl, fault,
              set_cached(cache, key, data, ttl, now, fault))

ClearCache(key, fault, gone) ==
    CacheCall("clear", key, 0, fault, clear_cache(cache, key, fault, gone))

\* time passes
Tick ==
    /\ now < MaxTime
    /\ now' = now + 1
    /\ UNCHANGED <<cache, cres, gm, clientVars, storeVars, configVars>>

CacheNext ==
    \/ \E k \in CacheKeys, ttl \in TTLs, f \in Faults \ {"dump"} : GetCached(k, ttl, f)
    \/ \E k \in CacheKeys, d \in Payloads, ttl \in TTLs, f \in Faults \ {"unlink"} :
          SetCached(k, d, ttl, f)
    \/ \E k \in {None} \cup {Some(x) : x \in CacheKeys}, f \in Faults \ {"open", "dump"} :
          \E gone \in Deleted(cache, k, f) : ClearCache(k, f, gone)
    \/ Tick

\* A cache alone.
InitCache == CacheInit /\ ClientIdle /\ StoreIdle /\ ConfigIdle

SpecCache == InitCache /\ [][CacheNext]_vars

(***************************************************************************)
(* The model catalog, OdooClient.get_models, on the client and the cache.  *)
(***************************************************************************)

\* ttl_seconds=86400, the 24 hours of get_models
Day == 86400

\* get_cache_key_for_models: "models_" and the md5 digest of "url:db" (the
\* digest is taken to be injective, and is written as its input here).
get_cache_key_for_models(url, db) == "models_" \o url \o ":" \o db

\* The servers and databases the two clients are built for.
Urls == {"https://a", "https://a:8069"}

Dbs == {"prod", "8069:prod"}

\* Two clients, each in a process of its own, on one cache directory.
Clients == 1..2

\* What a read of client 1 that is answered with a result returns: records
\* with the model names, in the order of the server, or no record.
ServerRecords == {<<"sale.order", "res.partner">>, <<>>}

\* The catalog the server of client 2 returns.
OtherModels == <<"res.partner">>

Records(c) == IF c = 1 THEN ServerRecords ELSE {OtherModels}

\* sorted([r['model'] for r in records])
Sorted(models) ==
    IF models = <<"sale.order", "res.partner">>
    THEN <<"res.partner", "sale.order">> ELSE models

\* The answers to one post of a get_models of client c: to the login, to an
\* attempt of the search, to an attempt of the read.  The server of client 2
\* answers every post with a result.
LoginAnswers(c) == IF c = 1 THEN {"result", "refused"} ELSE {"result"}

SearchAnswers(c) == IF c = 1 THEN {"result", "empty", "error", "timeout"} ELSE {"result"}

ReadAnswers(c) == IF c = 1 THEN {"result", "empty", "error"} ELSE {"result"}

\* The user id the login of client c returns.
UserId(c) == c

\* The fault of the set_cached of client c, if any.
StoreFaults(c) == IF c = 1 THEN {"none", "dump"} ELSE {"none"}

Digit(d) ==
    CASE d = 0 -> "0" [] d = 1 -> "1" [] d = 2 -> "2" [] d = 3 -> "3"
      [] d = 4 -> "4" [] d = 5 -> "5" [] d = 6 -> "6" [] d = 7 -> "7"
      [] d = 8 -> "8" [] d = 9 -> "9"

RECURSIVE IntText(_)
IntText(n) == IF n < 10 THEN Digit(n) ELSE IntText(n \div 10) \o Digit(n % 10)

\* The bytes json.dump writes for a list of model names, and for the entry
\* {'_timestamp': t, 'data': data} with the time t written as a float.
RECURSIVE ListBytes(_)
ListBytes(data) ==
    IF data = <<>> THEN 2
    ELSE IF Len(data) = 1 THEN Len(Head(data)) + 4
    ELSE Len(Head(data)) + 4 + ListBytes(Tail(data))

DumpBytes(t, data) == 15 + Len(IntText(t)) + 2 + 10 + ListBytes(data) + 1

\* A client for (url, db) that has not called get_models.  pc is where the
\* client is in get_models; doc is the cache_data it loaded, detached
\* whether the file it holds open was unlinked, attempt the attempt of the
\* retry loop, posts the posts of the call so far, models and ts what it is
\* about to store.  Of the last get_models that ended: what it returned,
\* whether the cache answered, the fault of its set_cached and the
\* timestamp of the entry it wrote; calls counts the calls that ended.
NoCatalog(url, db) ==
    [url |-> url, db |-> db, uid |-> 0, pc |-> "idle", doc |-> Garbage,
     detached |-> FALSE, attempt |-> 0, posts |-> 0, models |-> <<>>, ts |-> 0,
     value |-> None, outcome |-> "none", hit |-> FALSE, fault |-> "none",
     stamp |-> 0, calls |-> 0]

\* Two clients without uid, and an empty cache directory; bytes is the size
\* of every entry file.
CatalogInit ==
    /\ gm \in {[client |-> <<NoCatalog(u, d), NoCatalog(ou, od)>>, bytes |-> Empty] :
                 u \in Urls, d \in Dbs, ou \in Urls, od \in Dbs}
    /\ cache = Empty
    /\ now = 1
    /\ cres = NoCall

\* cache_file of client c: cache_dir / _get_cache_key(cache_key)
CacheFile(c) == FileName(get_cache_key_for_models(gm.client[c].url, gm.client[c].db))

\* The end of a get_models of client c.
Ended(c, value, outcome, hit, fault) ==
    [gm.client[c] EXCEPT !.pc = "idle", !.doc = Garbage, !.detached = FALSE,
                         !.attempt = 0, !.models = <<>>, !.ts = 0,
                         !.value = value, !.outcome = outcome, !.hit = hit,
                         !.fault = fault, !.stamp = gm.client[c].ts,
                         !.calls = @ + 1]

\* get_cached returned None: self.search begins, with the login of
\* _ensure_connected when the client holds no uid.
Missed(c) ==
    [gm.client[c] EXCEPT !.pc = IF gm.client[c].uid = 0 THEN "login" ELSE "search",
                         !.doc = Garbage, !.attempt = 0]

\* One step of client c that leaves the cache directory alone.
Local(c, client) ==
    /\ gm' = [gm EXCEPT !.client[c] = client]
    /\ UNCHANGED <<cache, now, cres, clientVars, storeVars, configVars>>

\* client.get_models(), up to cache_file.exists() of get_cached.
GetModels(c) ==
    /\ gm.client[c].pc = "idle"
    /\ gm.client[c].calls < MaxCalls
    /\ Local(c, IF CacheFile(c) \in DOMAIN cache
                THEN [gm.client[c] EXCEPT !.pc = "load", !.posts = 0]
                ELSE [Missed(c) EXCEPT !.posts = 0])

\* open(cache_file, 'r') and json.load: a file that is gone by now, and one
\* that is no JSON (a file just truncated for writing is empty), end
\* get_cached in its except branch.
ReadEntry(c) ==
    /\ gm.client[c].pc = "load"
    /\ Local(c, IF CacheFile(c) \notin DOMAIN cache THEN Missed(c)
                ELSE IF cache[CacheFile(c)].kind # "object" THEN Missed(c)
                ELSE [gm.client[c] EXCEPT !.pc = "check",
                                          !.doc = cache[CacheFile(c)]])

\* The tests of get_cached on the cache_data it loaded, at the time it is
\* now: no timestamp and an expired entry lead to the unlink, a valid entry
\* is returned by get_cached and by get_models.
CheckEntry(c) ==
    LET cache_data == gm.client[c].doc
    IN /\ gm.client[c].pc = "check"
       /\ Local(c, IF NoTimestamp(cache_data.ts)
                   THEN [gm.client[c] EXCEPT !.pc = "unlink"]
                   ELSE IF cache_data.ts.kind # "number" THEN Missed(c)
                   ELSE IF Expired(now - cache_data.ts.value, Day)
                   THEN [gm.client[c] EXCEPT !.pc = "unlink"]
                   ELSE IF cache_data.data = None THEN Missed(c)
                   ELSE Ended(c, Some(FromJson(Val(cache_data.data))), "ok", TRUE,
                              "none"))

\* cache_file.unlink() of get_cached: the file that has the name by now is
\* deleted, whoever wrote it; a client that holds it open writes into a file
\* that has no name any more.
UnlinkEntry(c) ==
    /\ gm.client[c].pc = "unlink"
    /\ cache' = IF CacheFile(c) \in DOMAIN cache THEN Unlink(cache, CacheFile(c))
                ELSE cache
    /\ gm' = [client |->
                [d \in Clients |->
                    IF d = c THEN Missed(c)
                    ELSE IF gm.client[d].pc = "dump" /\ CacheFile(d) = CacheFile(c)
                    THEN [gm.client[d] EXCEPT !.detached = TRUE]
                    ELSE gm.client[d]],
              bytes |-> [n \in DOMAIN gm.bytes \ {CacheFile(c)} |-> gm.bytes[n]]]
    /\ UNCHANGED <<now, cres, clientVars, storeVars, configVars>>

\* _ensure_connected of self.search on a client without uid: connect, one
\* post; a login that fails ends get_models.
LoginModels(c, resp, su) ==
    LET r == connect(gm.client[c].uid, resp, su, gm.client[c].posts + 1)
    IN /\ gm.client[c].pc = "login"
       /\ Local(c, IF r.outcome = "raise"
                   THEN [Ended(c, None, "raise", FALSE, "none") EXCEPT
                            !.uid = r.uid, !.posts = @ + 1]
                   ELSE [gm.client[c] EXCEPT !.uid = r.uid, !.posts = @ + 1,
                                             !.pc = "search"])

\* One attempt of a call in the retry loop, answered by resp: the exception
\* of an answer that is not retried, and of the last attempt, ends
\* get_models; before another attempt the client sleeps.
Attempt(c, resp, done) ==
    LET e == AttemptExc(resp, gm.client[c].posts + 1)
    IN IF e = NoExc THEN [done EXCEPT !.posts = @ + 1]
       ELSE IF IsRetryable(resp) /\ gm.client[c].attempt + 1 < max_retries
       THEN [gm.client[c] EXCEPT !.attempt = @ + 1, !.posts = @ + 1]
       ELSE [Ended(c, None, "raise", FALSE, "none") EXCEPT !.posts = @ + 1]

\* One post of self.search('ir.model', domain=[]): a search answered without
\* a result (null, false or no id) ends get_models with [], and nothing is
\* stored.
SearchModels(c, resp) ==
    /\ gm.client[c].pc = "search"
    /\ Local(c, Attempt(c, resp,
                        IF resp = "empty" THEN Ended(c, Some(<<>>), "ok", FALSE, "none")
                        ELSE [gm.client[c] EXCEPT !.pc = "read", !.attempt = 0]))

\* One post of self.read('ir.model', ...), and the sorted comprehension over
\* its records, which raises on a read answered with null or false.
ReadModels(c, resp, records) ==
    /\ gm.client[c].pc = "read"
    /\ Local(c, Attempt(c, resp,
                        IF resp = "empty" THEN Ended(c, None, "raise", FALSE, "none")
                        ELSE [gm.client[c] EXCEPT !.pc = "stamp", !.attempt = 0,
                                                  !.models = Sorted(records)]))

\* cache_entry = {'_timestamp': time.time(), 'data': data} of set_cached
StampEntry(c) ==
    /\ gm.client[c].pc = "stamp"
    /\ Local(c, [gm.client[c] EXCEPT !.pc = "open", !.ts = now])

\* open(cache_file, 'w') of set_cached: the file is created, or emptied.
OpenEntry(c) ==
    /\ gm.client[c].pc = "open"
    /\ cache' = (CacheFile(c) :> Garbage) @@ cache
    /\ gm' = [gm EXCEPT !.client[c].pc = "dump",
                        !.bytes = (CacheFile(c) :> 0) @@ @]
    /\ UNCHANGED <<now, cres, clientVars, storeVars, configVars>>

\* json.dump and the close of set_cached, and the return of get_models: the
\* entry is written from the start of the file the client holds open.  With
\* the fault dump nothing is written.  A longer text another client has
\* written since the open keeps its end, and the file is no JSON.
StoreModels(c, fault) ==
    LET name == CacheFile(c)
        n == DumpBytes(gm.client[c].ts, gm.client[c].models)
        written == fault = "none" /\ ~gm.client[c].detached
    IN /\ gm.client[c].pc = "dump"
       /\ cache' = IF ~written THEN cache
                   ELSE IF n < gm.bytes[name] THEN (name :> Garbage) @@ cache
                   ELSE (name :> DumpEntry(gm.client[c].ts, gm.client[c].models)) @@ cache
       /\ gm' = [gm EXCEPT !.client[c] = Ended(c, Some(gm.client[c].models), "ok",
                                               FALSE, fault),
                           !.bytes = IF written /\ n >= gm.bytes[name]
                                     THEN (name :> n) @@ @ ELSE @]
       /\ UNCHANGED <<now, cres, clientVars, storeVars, configVars>>

\* A day passes.
DayPasses ==
    /\ now + Day <= MaxTime * Day
    /\ now' = now + Day
    /\ UNCHANGED <<cache, cres, gm, clientVars, storeVars, configVars>>

CatalogNext ==
    \/ \E c \in Clients : GetModels(c)
    \/ \E c \in Clients : ReadEntry(c)
    \/ \E c \in Clients : CheckEntry(c)
    \/ \E c \in Clients : UnlinkEntry(c)
    \/ \E c \in Clients : \E l \in LoginAnswers(c) : LoginModels(c, l, UserId(c))
    \/ \E c \in Clients : \E s \in SearchAnswers(c) : SearchModels(c, s)
    \/ \E c \in Clients : \E r \in ReadAnswers(c), rs \in Records(c) : ReadModels(c, r, rs)
    \/ \E c \in Clients : StampEntry(c)
    \/ \E c \in Clients : OpenEntry(c)
    \/ \E c \in Clients : \E f \in StoreFaults(c) : StoreModels(c, f)
    \/ DayPasses

\* Two clients, their model catalogs and the cache; no store, no resolver.
InitCatalog == CatalogInit /\ ClientIdle /\ StoreIdle /\ ConfigIdle

SpecCatalog == InitCatalog /\ [][CatalogNext]_vars

(***************************************************************************)
(* The context of a call, OdooClient._execute and the typed verbs.         *)
(***************************************************************************)

\* The context dictionaries of the model: language and time zone.
Contexts ==
    UNION {[ks -> {"de", "en"}] : ks \in SUBSET {"lang", "tz"}}

\* The named arguments a caller spreads into a verb (**named): none, or a
\* context.
NamedArguments == {Empty} \cup {"context" :> c : c \in Contexts}

\* The binding of a call verb(..., context=call_site, **named) to the
\* signature (..., context: Optional[Dict] = None, **kwargs): a "context" in
\* named binds to the parameter context, never to kwargs, and is a TypeError
\* (multiple values for keyword argument) next to context=call_site.
\* call_site is None when the keyword is not written.
Bind(call_site, named) ==
    IF call_site # None /\ "context" \in DOMAIN named
    THEN [exc |-> "TypeError", context |-> None, kwargs |-> Empty]
    ELSE [exc |-> "none",
          context |-> IF call_site # None THEN call_site
                      ELSE IF "context" \in DOMAIN named THEN Some(named["context"])
                      ELSE None,
          kwargs |-> [k \in DOMAIN named \ {"context"} |-> named[k]]]

\* if context: existing_context = kwargs.get('context', {});
\*     kwargs['context'] = {**existing_context, **context}
merge_context(kwargs, context) ==
    IF context # None /\ Val(context) # Empty
    THEN ("context" :> (Val(context) @@ Get(kwargs, "context", Empty))) @@ kwargs
    ELSE kwargs

\* No call with a context yet.
NoContext ==
    [call_site |-> None, named |-> Empty, exc |-> "none", posted |-> FALSE,
     kwargs |-> Empty]

ContextInit ==
    /\ readonly = FALSE
    /\ force_write = FALSE
    /\ uid = 0
    /\ rpc = NoRpc
    /\ ctx = NoContext

\* client.read(model, ids, context=call_site, **named): the binding of the
\* arguments, then _execute with the merged kwargs as the last element of
\* the args of execute_kw.  kwargs is what the posts of the call carried.
ReadWithContext(call_site, named, script, su) ==
    LET b == Bind(call_site, named)
        r == execute(readonly, force_write, uid, "read", script, su)
    IN IF b.exc # "none"
       THEN /\ ctx' = [call_site |-> call_site, named |-> named, exc |-> b.exc,
                       posted |-> FALSE, kwargs |-> Empty]
            /\ UNCHANGED <<readonly, force_write, uid, rpc>>
            /\ UNCHANGED <<storeVars, configVars, cacheVars>>
       ELSE /\ uid' = r.uid
            /\ rpc' = [op |-> r.op, method |-> r.method, outcome |-> r.outcome,
                       exc |-> r.exc, logins |-> r.logins, attempts |-> r.attempts,
                       delays |-> r.delays, sent |-> r.sent,
                       answers |-> SubSeq(script, 1, Len(r.sent)),
                       force |-> force_write]
            /\ ctx' = [call_site |-> call_site, named |-> named, exc |-> "none",
                       posted |-> r.attempts > 0,
                       kwargs |-> IF r.attempts > 0
                                  THEN merge_context(b.kwargs, b.context)
                                  ELSE Empty]
            /\ UNCHANGED <<readonly, force_write>>
            /\ UNCHANGED <<storeVars, configVars, cacheVars>>

\* The server answers every post of a call, or none.
ContextScripts(u) ==
    {s \in Scripts(u) : \E r \in {"result", "refused"} : \A i \in DOMAIN s : s[i] = r}

ContextNext ==
    \E cs \in {None} \cup {Some(c) : c \in Contexts}, na \in NamedArguments,
       s \in ContextScripts(uid), su \in ServerUids(uid) :
        ReadWithContext(cs, na, s, su)

\* A client and the contexts of its calls.
InitContext == ContextInit /\ StoreIdle /\ ConfigIdle /\ CacheIdle

SpecContext == InitContext /\ [][ContextNext]_vars

(***************************************************************************)
(* Two ProfileManager instances on one store file.                         *)
(***************************************************************************)

\* The store files the instances are constructed on: profiles that are
\* default, protected or neither.
RaceStores ==
    {ps \in InitialStores : \A i \in 1..Len(ps) : ~ps[i].readonly}


\* The calls of the mutation API an instance makes.
Calls ==
    {[op |-> "add", name |-> n, default |-> d, new_name |-> n] :
        n \in Names, d \in BOOLEAN}
    \cup {[op |-> o, name |-> n, default |-> FALSE, new_name |-> n] :
            o \in {"update", "set_default", "delete"}, n \in Names}
    \cup {c \in {[op |-> "rename", name |-> n, default |-> FALSE, new_name |-> m] :
                    n \in Names, m \in Names} : c.name # c.new_name}

NoMutation == [op |-> "none", name |-> "", default |-> FALSE, new_name |-> ""]

Perform(call, ps) ==
    CASE call.op = "add" ->
            add_profile(ps, call.name, "https://a", "db", "admin", "secret", 30,
                        TRUE, call.default, FALSE)
      [] call.op = "update" ->
            update_profile(ps, call.name, FALSE,
                           [url |-> Some("https://b"), db |-> None,
                            username |-> None, password |-> None,
                            timeout |-> None, verify_ssl |-> None,
                            readonly |-> None])
      [] call.op = "set_default" -> set_default(ps, call.name)
      [] call.op = "delete" -> delete_profile(ps, call.name)
      [] call.op = "rename" -> rename_profile(ps, call.name, call.new_name)

\* self.profiles, the store a mutation works on: what the instance loaded,
\* whatever the file f holds by now.
SelfProfiles(inst, f) == inst.profiles

\* The keys of a profile's mapping in the order _save_profiles inserts
\* them (sort_keys=False keeps it).  The stores of the race hold no context.
KeyOrder ==
    <<"url", "db", "username", "password", "timeout", "verify_ssl", "default",
      "readonly", "protected">>

BoolKeys == {"verify_ssl", "default", "readonly", "protected"}

\* The timeouts of the profiles in the race.
Timeouts == {30}

\* The scalar yaml.dump writes for the value v of key k: true or false, the
\* digits of a number, a plain string, '' for the empty string.
ScalarText(k, v) ==
    IF k \in BoolKeys THEN (IF v THEN "true" ELSE "false")
    ELSE IF k = "timeout" THEN IntText(v)
    ELSE IF v = "" THEN "''" ELSE v

\* The value yaml.safe_load makes of the scalar t of key k.
ScalarValue(k, t) ==
    IF k \in BoolKeys THEN t = "true"
    ELSE IF k = "timeout" THEN CHOOSE n \in Timeouts : IntText(n) = t
    ELSE IF t = "''" THEN "" ELSE t

\* One line of the store file: key at indent ind and a colon, followed by a
\* scalar (map FALSE) or by nothing, the mapping being on the lines below
\* (map TRUE), and a newline.  The first cut bytes of the line are gone.
Line(ind, key, map, val) ==
    [ind |-> ind, key |-> key, map |-> map, val |-> val, cut |-> 0]

LineBytes(l) ==
    l.ind + Len(l.key) + 1 + (IF l.map THEN 0 ELSE 1 + Len(l.val)) + 1 - l.cut

\* A profile in the file: its name at indent 2, its keys at indent 4.
EntryLines(e) ==
    LET keys == SelectSeq(KeyOrder, LAMBDA k : k \in DOMAIN e.data)
    IN <<Line(2, e.name, TRUE, "")>>
       \o [j \in 1..Len(keys) |->
             Line(4, keys[j], FALSE, ScalarText(keys[j], e.data[keys[j]]))]

RECURSIVE ProfileLines(_)
ProfileLines(f) ==
    IF f = <<>> THEN <<>> ELSE EntryLines(Head(f)) \o ProfileLines(Tail(f))

\* The text yaml.dump(data, f, default_flow_style=False, sort_keys=False)
\* writes for the profiles mapping f: "profiles: {}" for an empty store.
FileLines(f) ==
    IF f = <<>> THEN <<Line(0, "profiles", FALSE, "{}")>>
    ELSE <<Line(0, "profiles", TRUE, "")>> \o ProfileLines(f)

RECURSIVE TextBytes(_)
TextBytes(text) ==
    IF text = <<>> THEN 0 ELSE LineBytes(Head(text)) + TextBytes(Tail(text))

\* The text without its first n bytes.
RECURSIVE Drop(_, _)
Drop(text, n) ==
    IF text = <<>> THEN <<>>
    ELSE IF n = 0 THEN text
    ELSE IF n >= LineBytes(Head(text))
         THEN Drop(Tail(text), n - LineBytes(Head(text)))
         ELSE <<[Head(text) EXCEPT !.cut = @ + n]>> \o Tail(text)

\* A write of the text new from the start of a file that holds the text old:
\* what old has beyond the end of new stays in the file.
Overlay(new, old) == new \o Drop(old, TextBytes(new))

\* yaml.safe_load at work: the open block mappings (stack: the indent of
\* each and what it is: the document, the profiles mapping, the mapping of
\* the profile in slot, or any other), the key that waits for its mapping
\* (open), whether the last line held a scalar, and the keys of the profiles
\* mapping read so far, in order (slots; dict: the value is a mapping).
Document ==
    [err |-> FALSE, stack |-> <<[ind |-> 0, kind |-> "top", slot |-> 0]>>,
     open |-> FALSE, oind |-> 0, okind |-> "top", okey |-> "",
     scalar |-> FALSE, slots |-> <<>>]

\* profiles[name] = value: a key that is there keeps its place.
SetSlot(slots, name, dict) ==
    LET slot == [name |-> name, dict |-> dict, data |-> Empty]
    IN IF \E j \in 1..Len(slots) : slots[j].name = name
       THEN [j \in 1..Len(slots) |->
               IF slots[j].name = name THEN slot ELSE slots[j]]
       ELSE Append(slots, slot)

\* The key that waits for its mapping gets it from a line at a deeper indent
\* i, and gets no value from any other line.
Settle(st, i) ==
    IF ~st.open THEN st
    ELSE IF i > st.oind
    THEN LET slots == CASE st.okind = "top" /\ st.okey = "profiles" -> <<>>
                        [] st.okind = "profiles" -> SetSlot(st.slots, st.okey, TRUE)
                        [] OTHER -> st.slots
             kind == CASE st.okind = "top" /\ st.okey = "profiles" -> "profiles"
                       [] st.okind = "profiles" -> "entry"
                       [] OTHER -> "other"
             slot == IF st.okind = "profiles"
                     THEN CHOOSE j \in 1..Len(slots) : slots[j].name = st.okey
                     ELSE 0
         IN [st EXCEPT !.open = FALSE, !.slots = slots,
                       !.stack = Append(@, [ind |-> i, kind |-> kind, slot |-> slot])]
    ELSE [st EXCEPT !.open = FALSE,
                    !.slots = IF st.okind = "profiles"
                              THEN SetSlot(@, st.okey, FALSE) ELSE @]

\* The open mappings that a line at indent i leaves open.
RECURSIVE Unwind(_, _)
Unwind(stack, i) ==
    IF stack # <<>> /\ stack[Len(stack)].ind > i
    THEN Unwind(SubSeq(stack, 1, Len(stack) - 1), i) ELSE stack

\* One line of the text.  A line of which only the newline is left is blank.
\* A line cut inside its indent starts that much further left; a line cut
\* inside its key starts at the margin with the rest of the key, which is no
\* key the loader looks for; a line cut behind its key is no key at all.  A
\* key is an error at a deeper indent than the scalar before it, and at an
\* indent at which no mapping is open.
ReadLine(st, l) ==
    LET i == IF l.cut < l.ind THEN l.ind - l.cut ELSE 0
        key == IF l.cut <= l.ind THEN l.key ELSE ""
        s == Settle(st, i)
        stack == Unwind(s.stack, i)
        top == stack[Len(stack)]
    IN IF st.err \/ LineBytes(l) = 1 THEN st
       ELSE IF l.cut >= l.ind + Len(l.key) THEN [st EXCEPT !.err = TRUE]
       ELSE IF ~st.open /\ st.scalar /\ i > st.stack[Len(st.stack)].ind THEN [st EXCEPT !.err = TRUE]
       ELSE IF stack = <<>> \/ top.ind # i THEN [st EXCEPT !.err = TRUE]
       ELSE IF l.map
       THEN [s EXCEPT !.stack = stack, !.scalar = FALSE, !.open = TRUE,
                      !.oind = i, !.okind = top.kind, !.okey = key]
       ELSE [s EXCEPT !.stack = stack, !.scalar = TRUE,
                      !.slots =
                          CASE top.kind = "entry" ->
                                 [@ EXCEPT ![top.slot].data =
                                     (key :> ScalarValue(key, l.val)) @@ @]
                            [] top.kind = "profiles" -> SetSlot(@, key, FALSE)
                            [] top.kind = "top" /\ key = "profiles" -> <<>>
                            [] OTHER -> @]

RECURSIVE ReadLines(_, _)
ReadLines(st, text) ==
    IF text = <<>> THEN Settle(st, 0) ELSE ReadLines(ReadLine(st, Head(text)), Tail(text))

\* yaml.safe_load(f) and data.get("profiles", {}): whether the load fails,
\* and the entries of the profiles mapping that are mappings themselves
\* (isinstance(profile_data, dict)).  An empty file is no error.
safe_load(text) ==
    LET st == ReadLines(Document, text)
        dicts == SelectSeq(st.slots, LAMBDA x : x.dict)
    IN [err |-> st.err,
        entries |-> IF st.err THEN <<>>
                    ELSE [j \in 1..Len(dicts) |->
                            [name |-> dicts[j].name, data |-> dicts[j].data]]]

\* _load_profiles: nothing is loaded from a file yaml.safe_load fails on
\* (except Exception: return).
load_profiles(text) ==
    LET data == safe_load(text)
    IN IF data.err THEN <<>> ELSE LoadProfiles(data.entries)

\* The end of an earlier, longer save behind a store: yaml.safe_load fails on
\* a file that ends with it.
Stray == [Line(4, "verify_ssl", FALSE, "true") EXCEPT !.cut = 16]

Instances == 1..2

\* An instance not constructed yet.
NoInstance ==
    [loaded |-> FALSE, at |-> 0, profiles |-> <<>>, call |-> NoMutation,
     saving |-> FALSE]

\* yaml.safe_load fails on the file as it is now.
Damaged == mgr.damaged

\* The store file before any instance is constructed: the profiles written
\* in it (base), its text, and whether yaml.safe_load fails on it
\* (base_damaged).  Then how often the file was opened for writing, the
\* instances (at is the number of those opens before the construction), and
\* the instances that saved, in the order in which their saves ended.  file
\* is the profiles mapping a load of the text yields.
RaceInit ==
    /\ mgr \in {[base |-> SaveProfiles(ps), base_damaged |-> d,
                 text |-> IF d THEN Append(FileLines(SaveProfiles(ps)), Stray)
                          ELSE FileLines(SaveProfiles(ps)),
                 damaged |-> d, opens |-> 0,
                 inst |-> [i \in Instances |-> NoInstance], savers |-> <<>>] :
                  ps \in RaceStores, d \in BOOLEAN}
    /\ file = safe_load(mgr.text).entries
    /\ profiles = <<>>
    /\ pres = NoResult

\* ProfileManager(config_path): an empty file is loaded as an empty store.
Construct(i) ==
    /\ ~mgr.inst[i].loaded
    /\ mgr' = [mgr EXCEPT !.inst[i].loaded = TRUE,
                          !.inst[i].at = mgr.opens,
                          !.inst[i].profiles = load_profiles(mgr.text)]
    /\ UNCHANGED <<profiles, file, pres, clientVars, configVars, cacheVars>>

\* One successful call of the mutation API on instance i, its only one, up
\* to the open(self.config_path, "w") of _save_profiles: the store in memory
\* is changed and the file is truncated.
Mutate(i, call) ==
    LET r == Perform(call, SelfProfiles(mgr.inst[i], file))
    IN /\ mgr.inst[i].loaded
       /\ mgr.inst[i].call = NoMutation
       /\ Len(mgr.inst[i].profiles) < MaxProfiles \/ call.op # "add"
       /\ r.success
       /\ file' = <<>>
       /\ mgr' = [mgr EXCEPT !.inst[i].profiles = r.profiles,
                             !.inst[i].call = call,
                             !.inst[i].saving = TRUE,
                             !.text = <<>>,
                             !.damaged = FALSE,
                             !.opens = @ + 1]
       /\ UNCHANGED <<profiles, pres, clientVars, configVars, cacheVars>>

\* The yaml.dump of _save_profiles and the end of the call: the store in
\* memory is written from the start of the file.  Over a longer file, which
\* another instance has written since the open, the end of that file stays
\* behind the dump.
Dump(i) ==
    LET text == Overlay(FileLines(SaveProfiles(mgr.inst[i].profiles)), mgr.text)
        data == safe_load(text)
    IN /\ mgr.inst[i].saving
       /\ file' = data.entries
       /\ mgr' = [mgr EXCEPT !.inst[i].saving = FALSE,
                             !.text = text,
                             !.damaged = data.err,
                             !.savers = Append(@, i)]
       /\ UNCHANGED <<profiles, pres, clientVars, configVars, cacheVars>>

RaceNext ==
    \/ \E i \in Instances : Construct(i)
    \/ \E i \in Instances, c \in Calls : Mutate(i, c)
    \/ \E i \in Instances : Dump(i)

\* Two instances and the store file; no client, no resolver, no cache.
InitRace == RaceInit /\ ClientIdle /\ ConfigIdle /\ CacheIdle

SpecRace == InitRace /\ [][RaceNext]_vars

(***************************************************************************)
(* Claims about the RPC client.                                            *)
(***************************************************************************)

\* Transport-level failures, as the claims name them.
TransportErrors == {"refused", "timeout"}

\* The answers to the model-call posts of the last operation (those after
\* the answer to its login handshake, if it made one).
CallAnswers == SubSeq(rpc.answers, rpc.logins + 1, Len(rpc.answers))

WriteCallOnReadonly ==
    rpc.op = "execute" /\ readonly /\ rpc.method \in WRITE_METHODS

\* C1: on a readonly client without the force-write flag, every call of a
\* mutating method fails with a permission error and sends no request at all,
\* also when the client had no uid when the call was made.
C1_ReadonlyGateNoRequest ==
    (WriteCallOnReadonly /\ ~rpc.force) =>
        /\ rpc.outcome = "raise"
        /\ rpc.exc.type = "PermissionError"
        /\ Len(rpc.sent) = 0

\* The login handshake of the last operation failed, so that no model call
\* could follow it.
LoginFailed ==
    rpc.logins >= 1 /\ rpc.outcome = "raise" /\ rpc.exc.at \in 1..rpc.logins

\* C2: on a readonly client with the force-write flag set, a call of a
\* mutating method is not rejected by the read-only gate and is dispatched to
\* the network layer.
C2_ForceWriteDispatches ==
    (WriteCallOnReadonly /\ rpc.force) =>
        /\ rpc.exc.type # "PermissionError"
        /\ (~LoginFailed => rpc.attempts >= 1)

\* C3: a dispatched call whose transport fails k <= 2 times and then answers
\* succeeds after exactly k+1 attempts and k delays; when the transport fails
\* every time, exactly 3 attempts and 2 delays occur and the error of the
\* last attempt is raised unchanged.
C3_RetryBound ==
    (rpc.op = "execute" /\ rpc.attempts >= 1) =>
        LET calls == CallAnswers
            n == Len(calls)
        IN /\ n = rpc.attempts
           /\ n <= max_retries
           /\ \A i \in 1..(n - 1) : calls[i] \in TransportErrors
           /\ rpc.delays = n - 1
           /\ calls[n] \in {"result", "empty"} =>
                  rpc.outcome = "ok" /\ rpc.exc = NoExc
           /\ calls[n] \in TransportErrors =>
                  /\ n = max_retries
                  /\ rpc.outcome = "raise"
                  /\ rpc.exc = Exc(IF calls[n] = "refused"
                                   THEN "requests.ConnectionError"
                                   ELSE "requests.Timeout", rpc.logins + n)

\* A transport that fails twice (two different errors) and then answers.
C3_Witness ==
    /\ rpc.op = "execute"
    /\ CallAnswers = <<"refused", "timeout", "result">>
    /\ rpc.outcome = "ok"
    /\ rpc.attempts = 3
    /\ rpc.delays = 2

\* C4: an application-level error on any attempt of a call is never retried:
\* it is the last attempt, it surfaces as the call's error, and no delay
\* follows it; on the first attempt that is 1 attempt and no delay.
C4_AppErrorNotRetried ==
    (rpc.op = "execute" /\ rpc.attempts >= 1) =>
        LET calls == CallAnswers
            n == Len(calls)
        IN /\ \A i \in 1..(n - 1) : calls[i] # "error"
           /\ calls[n] = "error" =>
                  /\ rpc.attempts = n
                  /\ rpc.delays = n - 1
                  /\ rpc.outcome = "raise"
                  /\ rpc.exc = Exc("ValueError", rpc.logins + n)
           /\ calls[1] = "error" => rpc.attempts = 1 /\ rpc.delays = 0

\* An application-level rejection on the first attempt of a dispatched call.
C4_Witness ==
    /\ rpc.op = "execute"
    /\ CallAnswers = <<"error">>
    /\ rpc.attempts = 1
    /\ rpc.exc.type = "ValueError"

\* C5: a transport failure during the login handshake is retried up to the
\* fixed bound before the connection error surfaces, for connect() as for
\* the login a verb triggers.
C5_LoginRetried ==
    (rpc.logins >= 1 /\ rpc.exc.type = "ConnectionError") =>
        rpc.logins = max_retries

(***************************************************************************)
(* Claims about the profile store.  A step of the store is described by    *)
(* pres', the result of the call that made it, against the store the call  *)
(* found (profiles, file).                                                 *)
(***************************************************************************)

\* The call of this step named a profile of the store that is protected.
TargetProtected ==
    Has(profiles, pres'.name) /\ Lookup(profiles, pres'.name).protected

\* The call of this step changed neither the store in memory nor the file.
NothingChanged == profiles' = profiles /\ file' = file /\ ~pres'.saved

\* C6: update, delete and rename on a protected profile always fail with the
\* Protected outcome, whatever the other arguments, and leave the store in
\* memory and the store file unchanged.
C6_ProtectedAlwaysProtected ==
    [][(pres'.op \in {"update", "delete", "rename"} /\ TargetProtected) =>
          /\ ~pres'.success
          /\ pres'.error = "protected"
          /\ NothingChanged]_vars

\* C6, amended: update, delete and rename on a protected profile always fail
\* and leave the store in memory and the store file unchanged; the outcome is
\* Protected, except for a rename whose new name is already in the store,
\* which fails with AlreadyExists.
C6_ProtectedNeverMutated ==
    [][(pres'.op \in {"update", "delete", "rename"} /\ TargetProtected) =>
          /\ ~pres'.success
          /\ pres'.error = IF pres'.op = "rename" /\ Has(profiles, pres'.arg)
                           THEN "already_exists" ELSE "protected"
          /\ NothingChanged]_vars

\* A rename of a protected profile to a name the store already holds has
\* been refused.
C6_Witness ==
    /\ pres.op = "rename"
    /\ ~pres.success
    /\ Has(profiles, pres.name)
    /\ Lookup(profiles, pres.name).protected
    /\ Has(profiles, pres.arg)
    /\ pres.arg # pres.name

\* C7: set_default fails with NotFound for a name not in the store and with
\* Protected for a protected profile; in both cases no default flag changes
\* and the file is not rewritten.
C7_SetDefaultRejects ==
    [][pres'.op = "set_default" =>
          /\ ~Has(profiles, pres'.name) =>
                 ~pres'.success /\ pres'.error = "not_found" /\ NothingChanged
          /\ TargetProtected =>
                 ~pres'.success /\ pres'.error = "protected" /\ NothingChanged]_vars

\* C8: a protected profile is immutable through the mutation API: after any
\* operation, on it or on another profile, it is still in the store with
\* every field, the default flag included, as before.
C8_ProtectedImmutable ==
    [][\A i \in 1..Len(profiles) :
          profiles[i].protected =>
              \E j \in 1..Len(profiles') : profiles'[j] = profiles[i]]_vars

\* C9: update(readonly=False) on an unprotected profile that is readonly
\* fails with requires_confirmation and a warning and changes nothing, in
\* memory or in the file, when confirmed is false; with confirmed true it
\* succeeds and the profile, in memory and as read back from the file, is no
\* longer readonly.
C9_ConfirmationGate ==
    [][(/\ pres'.op = "update"
        /\ Has(profiles, pres'.name)
        /\ ~Lookup(profiles, pres'.name).protected
        /\ Lookup(profiles, pres'.name).readonly
        /\ pres'.arg.readonly = Some(FALSE)) =>
          IF ~pres'.arg.confirmed
          THEN /\ ~pres'.success
               /\ pres'.requires_confirmation
               /\ pres'.warning
               /\ NothingChanged
          ELSE /\ pres'.success
               /\ ~Lookup(profiles', pres'.name).readonly
               /\ ~Lookup(LoadProfiles(file'), pres'.name).readonly]_vars

\* An unconfirmed update that asked for readonly=False together with a new
\* url has been refused, and the profile still has its url and is readonly.
C9_Witness ==
    /\ pres.op = "update"
    /\ pres.requires_confirmation
    /\ pres.arg.url
    /\ ~pres.arg.confirmed
    /\ Lookup(profiles, pres.name).readonly
    /\ Lookup(profiles, pres.name).url = "https://a"

\* The entries of the store file that carry default: true.
FileDefaultCount ==
    Cardinality({i \in 1..Len(file) : Get(file[i].data, "default", FALSE)})

\* C10: starting from a store with at most one default profile, after any
\* sequence of add, update, set_default, rename and delete at most one
\* profile is flagged default, in memory and in the file.
C10_DefaultUnique == DefaultCount(profiles) <= 1 /\ FileDefaultCount <= 1

\* A profile has been added as the default to a store that holds another
\* profile, and it is the only default.
C10_Witness ==
    /\ pres.op = "add"
    /\ pres.success
    /\ pres.arg.default
    /\ Len(profiles) >= 2
    /\ Lookup(profiles, pres.name).default
    /\ DefaultCount(profiles) = 1
    /\ FileDefaultCount = 1

\* The profiles flagged default are exactly those named name.
OnlyDefault(ps, name) == \A i \in 1..Len(ps) : ps[i].default <=> ps[i].name = name

\* C24: add with a name the store holds fails with AlreadyExists and changes
\* nothing, in memory or in the file, default flags included; add of a new
\* name as default leaves the new profile as the only default, in memory and
\* in the file.
C24_AddExistingChangesNothing ==
    [][pres'.op = "add" =>
          /\ Has(profiles, pres'.name) =>
                 ~pres'.success /\ pres'.error = "already_exists" /\ NothingChanged
          /\ (~Has(profiles, pres'.name) /\ pres'.arg.default) =>
                 /\ pres'.success
                 /\ Has(profiles', pres'.name)
                 /\ OnlyDefault(profiles', pres'.name)
                 /\ OnlyDefault(LoadProfiles(file'), pres'.name)]_vars

\* An add as default of a name the store holds has been refused, and another
\* profile is still the default.
C24_Witness ==
    /\ pres.op = "add"
    /\ ~pres.success
    /\ pres.error = "already_exists"
    /\ pres.arg.default
    /\ \E i \in 1..Len(profiles) : profiles[i].default /\ profiles[i].name # pres.name
    /\ FileDefaultCount = 1

\* The fields of a profile no update changes, or none was supplied for.
KeptFields(p) ==
    <<p.name, p.default, p.protected, p.db, p.username, p.password, p.timeout,
      p.verify_ssl, p.context>>

\* C25: a successful update leaves the name, the default and protected flags
\* and every field that was not supplied of the named profile as they were,
\* and every other profile, and the order of the store, unchanged; the file
\* holds the store it leaves.
C25_UpdateOnlySupplied ==
    [][(pres'.op = "update" /\ pres'.success) =>
          /\ Len(profiles') = Len(profiles)
          /\ \A i \in 1..Len(profiles) :
                IF profiles[i].name # pres'.name
                THEN profiles'[i] = profiles[i]
                ELSE /\ KeptFields(profiles'[i]) = KeptFields(profiles[i])
                     /\ ~pres'.arg.url => profiles'[i].url = profiles[i].url
                     /\ pres'.arg.readonly = None =>
                            profiles'[i].readonly = profiles[i].readonly
          /\ LoadProfiles(file') = profiles']_vars

\* The url of the default, readonly profile of a store of two has been
\* updated: it is still default and readonly, the other has its url.
C25_Witness ==
    /\ pres.op = "update"
    /\ pres.success
    /\ pres.arg.url
    /\ pres.arg.readonly = None
    /\ Len(profiles) = 2
    /\ Lookup(profiles, pres.name).url = "https://b"
    /\ Lookup(profiles, pres.name).default
    /\ Lookup(profiles, pres.name).readonly
    /\ \E i \in 1..2 : profiles[i].name # pres.name /\ profiles[i].url = "https://a"

\* The connection bundle of an optional profile: every field but the name.
Bundle(p) ==
    IF p = None THEN None
    ELSE LET q == Val(p)
         IN Some(<<q.url, q.db, q.username, q.password, q.timeout, q.verify_ssl,
                   q.default, q.readonly, q.protected, q.context>>)

\* C29: with no ODOO_PROFILE set, the bundle of the profile get_profile()
\* selects without a name is the same before and after a successful rename.
C29_RenameKeepsSelection ==
    [][(pres'.op = "rename" /\ pres'.success) =>
          Bundle(get_profile(profiles', None, Empty))
              = Bundle(get_profile(profiles, None, Empty))]_vars

(***************************************************************************)
(* Claims about the configuration resolver.                                *)
(***************************************************************************)

\* load_config has returned a config.
Resolved == cfg.phase # "input" /\ cfg.outcome = "ok"

\* The environment load_config reads, the env files it found loaded.
Environ == LoadEnvFiles(cin.environ, cin.envfiles)

\* An ad-hoc JSON config file was passed and exists.
FileSupplied ==
    Truthy(cin.config_file) /\ Val(cin.config_file) \in DOMAIN ConfigFiles

\* C11: with no ad-hoc file and no legacy top-level config in play, the url
\* of the resolved config is the url override if one is passed, else the url
\* of the stored profile the config names as selected, else the value of
\* ODOO_URL, else the config has no url.
C11_UrlPrecedence ==
    (Resolved /\ ~FileSupplied /\ cin.legacy = None) =>
        LET c == cfg.config
            env_url == getenv(Environ, "ODOO_URL")
        IN IF cin.url # None THEN "url" \in DOMAIN c /\ c.url = Val(cin.url)
           ELSE IF c._profile # None
           THEN /\ Has(profiles, Val(c._profile))
                /\ "url" \in DOMAIN c
                /\ c.url = Lookup(profiles, Val(c._profile)).url
           ELSE IF env_url # None THEN "url" \in DOMAIN c /\ c.url = Val(env_url)
           ELSE "url" \notin DOMAIN c

\* A profile was selected while ODOO_URL was set and no url was passed: the
\* resolved url is the profile's, not the environment's.
C11_Witness ==
    /\ Resolved /\ ~FileSupplied /\ cin.legacy = None
    /\ cin.url = None
    /\ getenv(Environ, "ODOO_URL") = Some("https://env")
    /\ cfg.config._profile = Some("staging")
    /\ cfg.config.url = "https://staging"

OverrideKeys == {"url", "db", "username", "password", "timeout", "verify_ssl"}

\* C12: every argument of load_config that is passed (url, db, username,
\* password, timeout, verify_ssl) is the value of its key in the resolved
\* config, whatever the environment (ODOO_NO_VERIFY_SSL included), the
\* selected profile and the ad-hoc file hold.
C12_OverridesWin ==
    Resolved =>
        \A k \in OverrideKeys :
            cin[k] # None =>
                k \in DOMAIN cfg.config /\ cfg.config[k] = Val(cin[k])

\* No argument of load_config overrides a connection value.
NoOverride == \A k \in OverrideKeys : cin[k] = None

ConnectionKeys == {"url", "db", "username", "password"}

\* C13: with no profile selected and no argument passed, a connection value
\* that the environment sets is the resolved value, also when the ad-hoc JSON
\* config file sets the same key.
C13_EnvOverFile ==
    (Resolved /\ FileSupplied /\ NoOverride
       /\ cfg.config._profile = None /\ cin.legacy = None) =>
        LET e == FromEnvironment(Empty, Environ)
            f == ConfigFiles[Val(cin.config_file)].object
        IN \A k \in ConnectionKeys :
               (k \in DOMAIN e /\ k \in DOMAIN f) => cfg.config[k] = e[k]

\* Some profile of the store is flagged default.
HasDefault(ps) == \E i \in 1..Len(ps) : ps[i].default

\* The first profile of the store that is flagged default.
TheDefault(ps) ==
    ps[CHOOSE i \in 1..Len(ps) :
         ps[i].default /\ \A j \in 1..(i - 1) : ~ps[j].default]

\* The chain of the claim, each step tried when the one before it yields no
\* profile.
Chain(ps, name, env) ==
    IF Truthy(name) /\ Has(ps, Val(name)) THEN Some(Lookup(ps, Val(name)))
    ELSE IF Truthy(env) /\ Has(ps, Val(env)) THEN Some(Lookup(ps, Val(env)))
    ELSE IF HasDefault(ps) THEN Some(TheDefault(ps))
    ELSE IF ps # <<>> THEN Some(ps[1])
    ELSE None

\* C14 as stated: get_profile returns the named profile, else the one
\* ODOO_PROFILE names, else the default, else the first of the store, and
\* None only when no step of this chain yields a profile.
C14_FindFallsThrough ==
    found.done =>
        found.profile = Chain(profiles, cin.profile,
                              getenv(cin.environ, "ODOO_PROFILE"))

\* C14, amended: with a non-empty name get_profile returns the profile
\* stored under that name and None when there is none; without a name it
\* returns the stored profile ODOO_PROFILE names, else the default, else the
\* first of the store, and None only when the store is empty.
C14_FindOrder ==
    found.done =>
        LET env == getenv(cin.environ, "ODOO_PROFILE")
        IN IF Truthy(cin.profile)
           THEN found.profile =
                    IF Has(profiles, Val(cin.profile))
                    THEN Some(Lookup(profiles, Val(cin.profile))) ELSE None
           ELSE /\ found.profile = Chain(profiles, None, env)
                /\ found.profile = None <=> profiles = <<>>

\* No name, ODOO_PROFILE names no stored profile, and the default is not the
\* first of the store: the default is returned.
C14_Witness ==
    /\ found.done
    /\ cin.profile = None
    /\ getenv(cin.environ, "ODOO_PROFILE") = Some("ghost")
    /\ Len(profiles) = 2
    /\ profiles[2].default
    /\ found.profile = Some(profiles[2])

\* C15: load_config returns a config whatever it is called with and on,
\* an ad-hoc config file that is not valid JSON and a store file that cannot
\* be read included.
C15_ResolutionNeverFails == cfg.phase # "input" => cfg.outcome = "ok"

(***************************************************************************)
(* Claims about the session of the RPC client.                             *)
(***************************************************************************)

\* C16: a client that holds a uid keeps holding one, whatever is called on
\* it next: a verb, or connect() again with any answer to the login.
C16_AuthenticatedOneWay == [][uid # 0 => uid' # 0]_vars

\* This step is a call of a verb (the record of the last operation is new
\* and is the record of an execute).
VerbStep == rpc' # rpc /\ rpc'.op = "execute"

\* The model calls among the requests the verb of this step posted.
ModelCallsSent ==
    {i \in 1..Len(rpc'.sent) : rpc'.sent[i].service = "object"}

\* C17: a verb posts a login exactly when the client holds no uid; every
\* model call it posts carries the uid the client holds, which is the one it
\* held before or the one the login of this verb returned; when the login
\* fails the client still holds no uid and no model call is posted; and a
\* verb on a client that holds a uid posts no login and leaves the uid.
C17_LazyLogin ==
    [][VerbStep =>
         /\ rpc'.logins = (IF uid = 0 THEN 1 ELSE 0)
         /\ Cardinality({i \in 1..Len(rpc'.sent) :
                            rpc'.sent[i].service = "common"}) = rpc'.logins
         /\ \A i \in ModelCallsSent :
                /\ rpc'.sent[i].uid # 0
                /\ rpc'.sent[i].uid = uid'
                /\ uid # 0 \/ (i > 1 /\ rpc'.answers[1] = "result")
         /\ (uid = 0 /\ rpc'.answers[1] # "result") =>
                /\ uid' = 0
                /\ ModelCallsSent = {}
                /\ rpc'.outcome = "raise"
         /\ uid # 0 => uid' = uid]_vars

\* A verb called without a uid has logged in and then posted its model call
\* with the uid the login returned.
C17_Witness ==
    /\ rpc.op = "execute"
    /\ rpc.logins = 1
    /\ rpc.answers[1] = "result"
    /\ Len(rpc.sent) = 2
    /\ rpc.sent[2].service = "object"
    /\ rpc.sent[2].uid = uid
    /\ uid = MaxUid

(***************************************************************************)
(* Claims about the response cache.                                        *)
(***************************************************************************)

\* This step is a call of get_cached (the record of the last call is that of
\* a get, and it or the cache directory is new).
GetStep == cres'.op = "get" /\ (cres' # cres \/ cache' # cache)

\* The entry file of the key of the call of this step.
EntryFile == FileName(Val(cres'.key))

\* C18: when the entry file of k is the one set(k, v, ...) wrote at time t
\* and no filesystem call fails, get(k, ttl) at time now returns v and leaves
\* the file if now - t <= ttl, and returns absent and leaves no file for k if
\* now - t > ttl.
C18_RoundTripAndExpiry ==
    [][(GetStep /\ cres'.fault = "none" /\ EntryFile \in DOMAIN cache) =>
         \A t \in 1..now, v \in Payloads :
            cache[EntryFile] = DumpEntry(t, v) =>
               IF now - t <= cres'.ttl
               THEN cres'.value = Some(v) /\ cache' = cache
               ELSE cres'.value = None /\ EntryFile \notin DOMAIN cache']_vars

\* get returned the payload of an entry whose age is exactly the ttl.
C18_Witness ==
    /\ cres.op = "get"
    /\ cres.fault = "none"
    /\ cres.ttl = 1
    /\ now = 2
    /\ cres.key = Some("models_a")
    /\ FileName("models_a") \in DOMAIN cache
    /\ cache[FileName("models_a")] = DumpEntry(1, <<"res.partner", "sale.order">>)
    /\ cres.value = Some(<<"res.partner", "sale.order">>)

\* C19: when get finds an entry file and returns absent, with every
\* filesystem call but the read of the file working, the entry file is gone
\* when get returns.
C19_InvalidEntryPurged ==
    [][(GetStep /\ cres'.fault \in {"none", "open"}
          /\ EntryFile \in DOMAIN cache /\ cres'.value = None) =>
         EntryFile \notin DOMAIN cache']_vars

\* C20: no call of get, set or clear raises, whatever filesystem call fails
\* and whatever the entry file holds; a get whose body failed returns absent.
C20_NeverRaises ==
    /\ cres.raised = "none"
    /\ (cres.op = "get" /\ cres.exc # "none") => cres.value = None
    /\ cres.op \in {"set", "clear"} => cres.value = None

\* A set whose write failed has left a truncated file, and the get after it
\* has swallowed the parse error and returned absent.
C20_Witness ==
    /\ cres.op = "get"
    /\ cres.exc = "json.JSONDecodeError"
    /\ cres.raised = "none"
    /\ cres.value = None
    /\ cres.key = Some("models_b")
    /\ now = MaxTime

\* This step is a call of set_cached.
SetStep == cres'.op = "set" /\ (cres' # cres \/ cache' # cache)

\* C21: the file a set leaves is the same whichever ttl is passed to it, and
\* a get(k, ttl) that finds an entry written at time t rejects it exactly
\* when now - t > ttl, the ttl of this get.
C21_TtlAtReadOnly ==
    [][/\ (SetStep /\ cres'.fault = "none") =>
             \E v \in Payloads : \A ttl \in TTLs :
                 cache' = set_cached(cache, Val(cres'.key), v, ttl, now, "none").files
       /\ (GetStep /\ cres'.fault = "none" /\ EntryFile \in DOMAIN cache) =>
             \A t \in 1..now, v \in Payloads :
                 cache[EntryFile] = DumpEntry(t, v) =>
                     (cres'.value = None <=> now - t > cres'.ttl)]_vars

\* An entry of age 1, which a get with ttl 0 rejects, has been accepted by a
\* get with ttl 1.
C21_Witness ==
    /\ cres.op = "get"
    /\ cres.fault = "none"
    /\ cres.ttl = 1
    /\ cres.key = Some("models_b")
    /\ now = MaxTime
    /\ FileName("models_b") \in DOMAIN cache
    /\ cache[FileName("models_b")] = DumpEntry(MaxTime - 1, <<"res.partner">>)
    /\ cres.value = Some(<<"res.partner">>)

\* The pairs of the two clients.
Pair == <<gm.client[1].url, gm.client[1].db>>

OtherPair == <<gm.client[2].url, gm.client[2].db>>

\* C22: the catalog keys of two (url, db) pairs whose clients have called
\* get_models are equal only when the pairs are equal, and a client never
\* gets from the cache the catalog a client for another pair stored.
C22_KeyPerPair ==
    /\ (/\ \A c \in Clients : gm.client[c].calls > 0
        /\ CacheFile(1) = CacheFile(2)) => Pair = OtherPair
    /\ (gm.client[1].hit /\ gm.client[1].value = Some(OtherModels)) => Pair = OtherPair

\* This step ends a call of get_models of client 1.
CatalogStep == gm'.client[1].calls # gm.client[1].calls

\* C23: a get_models the cache answers posts nothing; one the cache does not
\* answer and that returns a catalog, with a cache directory that can be
\* written, leaves that catalog in the entry file of the client's key; and
\* the get_models that follows one that fetched and returned a catalog, and
\* ends not later than a day after the timestamp of that entry, is answered
\* by the cache.
C23_CacheBeforeNetwork ==
    [][CatalogStep =>
         /\ gm'.client[1].hit =>
                gm'.client[1].posts = 0 /\ gm'.client[1].uid = gm.client[1].uid
         /\ (/\ ~gm'.client[1].hit
             /\ gm'.client[1].outcome = "ok"
             /\ gm'.client[1].fault = "none") =>
                /\ CacheFile(1) \in DOMAIN cache'
                /\ cache'[CacheFile(1)] = DumpEntry(gm.client[1].ts,
                                                    Val(gm'.client[1].value))
         /\ (/\ ~gm.client[1].hit
             /\ gm.client[1].outcome = "ok"
             /\ gm.client[1].fault = "none"
             /\ now - gm.client[1].stamp <= Day) =>
                gm'.client[1].hit]_vars

\* The context the server finds in the kwargs of the call, {} without one.
SentContext == Get(ctx.kwargs, "context", Empty)

\* The context named arguments carry, {} without one.
Ambient == Get(ctx.named, "context", Empty)

\* C26: a call given a call-site context whose named arguments carry an
\* ambient context is sent, and the context it sends holds the keys of both,
\* with the call-site value for a key of both; a call given no call-site
\* context sends the ambient context unchanged.
C26_CallSiteContextWins ==
    /\ (ctx.call_site # None /\ "context" \in DOMAIN ctx.named) =>
          /\ ctx.exc = "none"
          /\ ctx.posted =>
                /\ DOMAIN SentContext = DOMAIN Val(ctx.call_site) \cup DOMAIN Ambient
                /\ \A k \in DOMAIN SentContext :
                      SentContext[k] = IF k \in DOMAIN Val(ctx.call_site)
                                       THEN Val(ctx.call_site)[k] ELSE Ambient[k]
    /\ (ctx.call_site = None /\ ctx.posted) => SentContext = Ambient

\* C30: the profile load_config merges into the config is the profile
\* get_profile returns for the same store, environment and selector.
C30_ResolverAppliesFound ==
    (Resolved /\ found.done) =>
        cfg.config["_profile"] =
            (IF found.profile = None THEN None ELSE Some(Val(found.profile).name))

(***************************************************************************)
(* Claims about two instances on one store file.                           *)
(***************************************************************************)

\* Both instances were constructed on the file as it was at first, and both
\* have made their mutation and saved.
BothMutated ==
    /\ \A i \in Instances : mgr.inst[i].loaded /\ mgr.inst[i].at = 0
    /\ Len(mgr.savers) = 2

\* C27: when two instances loaded from the same file have each made one
\* successful mutation, the file is the whole store in memory of the
\* instance that saved last, which is what its mutation alone makes of the
\* file they loaded; and after every save at most one entry of the file is
\* flagged default.
C27_LastWriterWins ==
    /\ BothMutated =>
          LET last == mgr.inst[mgr.savers[2]]
          IN /\ ~Damaged
             /\ file = SaveProfiles(last.profiles)
             /\ file = SaveProfiles(Perform(last.call,
                                            (IF mgr.base_damaged THEN <<>> ELSE LoadProfiles(mgr.base))).profiles)
    /\ (mgr.savers # <<>> /\ \A i \in Instances : ~mgr.inst[i].saving) =>
          FileDefaultCount <= 1

\* The entry e of a store file is in the file f, with its connection data.
Persisted(e, f) ==
    \E j \in 1..Len(f) :
        /\ f[j].name = e.name
        /\ \A k \in RequiredKeys : f[j].data[k] = e.data[k]

\* C28: after a successful add, update, rename or set_default on an instance
\* constructed on the file as it was, the first to save, every profile of
\* that file but the one the call names is still in the file, also when the
\* file could not be parsed.
C28_OthersStayPersisted ==
    [][(/\ mgr.savers = <<>>
        /\ mgr'.savers # <<>>
        /\ mgr.inst[mgr'.savers[1]].at = 0
        /\ mgr.inst[mgr'.savers[1]].call.op # "delete") =>
          /\ ~mgr'.damaged
          /\ \A k \in 1..Len(mgr.base) :
                mgr.base[k].name # mgr.inst[mgr'.savers[1]].call.name =>
                    Persisted(mgr.base[k], file')]_vars
====
